---- MODULE Spec2Model ----
(***************************************************************************)
(* Model of podcast_tech_radar: the chunk windower (chunking.py), the      *)
(* persistence upserts (storage.py) and the ingestion graph with its       *)
(* refine loop (graph.py, nodes.py, chunk_nodes.py).                       *)
(*                                                                         *)
(* Conventions.  Python None in an integer field is NoneId (ids start at   *)
(* 1, and the code itself reads "seg.id or 0").  A text is a string token  *)
(* whose Python len() is given by StrLen.  sha256 is modelled as           *)
(* collision free: hash_text(t) is the tagged text itself.                 *)
(***************************************************************************)
EXTENDS Integers, Sequences, FiniteSets, TLC

VARIABLES
    \* the tables
    episodes, segments, topics, chunks, chunk_segments, entities, assertions, cards, embeddings,
    \* the ingestion run: the node to execute next and the GraphState record
    pc, state,
    \* observation of the run: runs started, executions per node in this run
    \* (counted up to MaxExec), refine edges taken, whether every card result
    \* of this run had needs_refine set
    run,
    \* observation across runs: what parse_and_segment returned per source, and
    \* the inputs chunk_persist has completed with
    ingested, windowed,
    \* the windower on its own: its inputs and its result
    win_in, win_out,
    \* the retrieval fusion of qa_chain on its own: the queries searched so far, the
    \* fused scores, and the distances each chunk was returned at
    qa,
    \* the question answering graph (cli.ask_command): the node to execute next and
    \* the GraphState record
    ask,
    \* llm.call_json on its own: the attempt in progress and how the call ended
    call,
    \* two ingestion runs upserting the same row at the same time
    race,
    \* one upsert call statement by statement: the session's pending rows, the batch
    \* and the position in it
    txn

Min(a, b) == IF a <= b THEN a ELSE b
Max(a, b) == IF a >= b THEN a ELSE b

\* None in an Optional[int] field (schemas.py: id: int | None = None).
NoneId == 0
\* None in an Optional[str] field.
NoneStr == "None"

(***************************************************************************)
(* Text lengths: Python len() of a string.  Short strings have their own   *)
(* length; the transcript bodies of the sources are abbreviated to a name  *)
(* and their lengths are listed here.                                      *)
(***************************************************************************)
LongTextLen ==
    [t \in {"intro", "u1-30", "f1"} |->
        CASE t = "u1-30" -> 2000
          [] t = "f1" -> 5000
          [] OTHER -> 400]

StrLen(s) == IF s \in DOMAIN LongTextLen THEN LongTextLen[s] ELSE Len(s)

\* seconds_to_hms: "%02d:%02d:%02d" is 8 characters for every time below 100 hours,
\* and None renders as "00:00:00".
HmsLen == 8

\* utils.estimate_tokens, on the number of characters of the text.
estimate_tokens(chars) == Max(1, chars \div 4)

(***************************************************************************)
(* chunking.py                                                             *)
(***************************************************************************)
\* The absent topic (topic=None in _build_topic_chunks).
NoTopic == [id |-> NoneId, name |-> "", start_seg_id |-> NoneId, end_seg_id |-> NoneId]

\* _build_chunk_text: the rendered text, kept as its content (the optional topic
\* header line, then per segment a header line and the body line).
_build_chunk_text(topic, seglist) ==
    [topic |-> IF topic = NoTopic THEN NoneStr ELSE topic.name,
     segs |-> [i \in 1..Len(seglist) |->
                 [speaker |-> seglist[i].speaker,
                  t_start_sec |-> seglist[i].t_start_sec,
                  text |-> seglist[i].text]]]

RECURSIVE SumLineLens(_, _)
SumLineLens(segs, i) ==
    IF i > Len(segs) THEN 0
    ELSE LET spk == IF segs[i].speaker = NoneStr THEN "Unknown" ELSE segs[i].speaker
         IN  (StrLen(spk) + 2 + HmsLen + 1) + StrLen(segs[i].text) + SumLineLens(segs, i + 1)

\* len() of the text _build_chunk_text returns: the lines joined by "\n".
TextLen(chunk_text) ==
    LET hdr == IF chunk_text.topic = NoneStr THEN 0 ELSE 1
        nlines == hdr + 2 * Len(chunk_text.segs)
        topicLen == IF chunk_text.topic = NoneStr THEN 0
                    ELSE StrLen("[Topic: ") + StrLen(chunk_text.topic) + 1
    IN  IF nlines = 0 THEN 0
        ELSE topicLen + SumLineLens(chunk_text.segs, 1) + (nlines - 1)

\* _make_chunk
_make_chunk(topic, seglist, chunk_text) ==
    [topic_id |-> topic.id,
     start_seg_id |-> seglist[1].id,
     end_seg_id |-> seglist[Len(seglist)].id,
     t_start_sec |-> seglist[1].t_start_sec,
     t_end_sec |-> seglist[Len(seglist)].t_end_sec,
     segment_ids |-> [i \in 1..Len(seglist) |-> seglist[i].id],
     chunk_text |-> chunk_text]

\* The guard of the two "if len(window) < min_segs: break" statements.
WindowNeverShort(window, min_segs) == FALSE
WindowTooShort(window, min_segs) == Len(window) < min_segs

\* The right-trim loop: while the text is over budget and the window has more
\* than min_segs segments, drop the last segment.
TrimNever(topic, window, max_tokens, min_segs) == window
RECURSIVE TrimWindow(_, _, _, _)
TrimWindow(topic, window, max_tokens, min_segs) ==
    IF estimate_tokens(TextLen(_build_chunk_text(topic, window))) > max_tokens
       /\ Len(window) > min_segs
    THEN TrimWindow(topic, SubSeq(window, 1, Len(window) - 1), max_tokens, min_segs)
    ELSE window

\* idx += max(1, len(window) - overlap)
AdvanceWholeWindow(window, overlap) == Max(1, Len(window))
AdvanceFloorZero(window, overlap) == Max(0, Len(window) - overlap)
AdvanceByOne(window, overlap) == 1
Advance(window, overlap) == Max(1, Len(window) - overlap)

\* _build_topic_chunks: the while loop from index idx (0-based) with the chunks
\* emitted so far.  The result says whether _make_chunk raised (IndexError on an
\* empty window, which min_segs = 0 allows).
RECURSIVE WindowLoop(_, _, _, _, _)
WindowLoop(topic, seglist, p, idx, emitted) ==
    LET total == Len(seglist)
        window0 == SubSeq(seglist, idx + 1, Min(total, idx + p.max_segs))
        window == TrimWindow(topic, window0, p.max_tokens, p.min_segs)
    IN  IF ~(idx < total) THEN [ok |-> TRUE, chunks |-> emitted]
        ELSE IF WindowTooShort(window0, p.min_segs) THEN [ok |-> TRUE, chunks |-> emitted]
        ELSE IF WindowTooShort(window, p.min_segs) THEN [ok |-> TRUE, chunks |-> emitted]
        ELSE IF Len(window) = 0 THEN [ok |-> FALSE, chunks |-> <<>>]
        ELSE WindowLoop(topic, seglist, p, idx + Advance(window, p.overlap),
                        Append(emitted, _make_chunk(topic, window, _build_chunk_text(topic, window))))

_build_topic_chunks(topic, seglist, p) == WindowLoop(topic, seglist, p, 0, <<>>)

\* list.index / "in": the 1-based position of id in the id list, 0 when absent.
IndexOfId(seglist, id) ==
    IF \E i \in 1..Len(seglist) : seglist[i].id = id
    THEN CHOOSE i \in 1..Len(seglist) :
            /\ seglist[i].id = id
            /\ \A j \in 1..(i - 1) : seglist[j].id # id
    ELSE 0

\* _topic_ranges, for one topic: its inclusive sub-range, or the full list.
TopicRangeHalfOpen(topic, seglist) ==
    LET s == IndexOfId(seglist, topic.start_seg_id)
        e == IndexOfId(seglist, topic.end_seg_id)
    IN  IF s # 0 /\ e # 0 /\ s <= e THEN SubSeq(seglist, s, e - 1) ELSE seglist
TopicRange(topic, seglist) ==
    LET s == IndexOfId(seglist, topic.start_seg_id)
        e == IndexOfId(seglist, topic.end_seg_id)
    IN  IF s # 0 /\ e # 0 /\ s <= e THEN SubSeq(seglist, s, e) ELSE seglist

_topic_ranges(tops, seglist) ==
    IF tops = <<>> THEN << <<NoTopic, seglist>> >>
    ELSE [i \in 1..Len(tops) |-> <<tops[i], TopicRange(tops[i], seglist)>>]

\* list.sort(key=id): a stable insertion sort.
RECURSIVE InsertById(_, _)
InsertById(sorted, seg) ==
    IF sorted = <<>> THEN <<seg>>
    ELSE IF sorted[Len(sorted)].id <= seg.id THEN Append(sorted, seg)
    ELSE Append(InsertById(SubSeq(sorted, 1, Len(sorted) - 1), seg), sorted[Len(sorted)])

KeepOrder(seglist) == seglist
RECURSIVE SortById(_)
SortById(seglist) ==
    IF seglist = <<>> THEN <<>>
    ELSE InsertById(SortById(SubSeq(seglist, 1, Len(seglist) - 1)), seglist[Len(seglist)])

\* The "for topic, segs in topic_ranges" loop from range i on.
RECURSIVE RangesLoop(_, _, _, _, _)
RangesLoop(ranges, ordered_segments, p, i, emitted) ==
    IF i > Len(ranges) THEN [ok |-> TRUE, chunks |-> emitted]
    ELSE LET segs == ranges[i][2]
             segs_to_use == IF Len(segs) >= p.min_segs THEN segs ELSE ordered_segments
             r == _build_topic_chunks(ranges[i][1], segs_to_use, p)
         IN  IF ~r.ok THEN r
             ELSE RangesLoop(ranges, ordered_segments, p, i + 1, emitted \o r.chunks)

build_chunks_from_topics(tops, seglist, p) ==
    LET ordered_segments == SortById(SelectSeq(seglist, LAMBDA s : s.id # NoneId))
    IN  IF ordered_segments = <<>> THEN [ok |-> TRUE, chunks |-> <<>>]
        ELSE RangesLoop(_topic_ranges(tops, ordered_segments), ordered_segments, p, 1, <<>>)

\* The defaults of build_chunks_from_topics.
DefaultMaxTokens == 800
DefaultMinSegs == 2
DefaultMaxSegs == 6
DefaultOverlap == 1
DefaultParams == [max_tokens |-> DefaultMaxTokens, min_segs |-> DefaultMinSegs,
                  max_segs |-> DefaultMaxSegs, overlap |-> DefaultOverlap]

(***************************************************************************)
(* utils.py                                                                *)
(***************************************************************************)
\* hash_text: sha256 of the stripped value, collision free.
hash_text(value) == <<"sha256", value>>

\* normalize_name: trim, collapse whitespace runs, lower-case.
KeepNameAsWritten(name) == name
normalize_name(name) ==
    CASE name = "AI" -> "ai"
      [] name = " ai " -> "ai"
      [] name = "GPT  4" -> "gpt 4"
      [] OTHER -> name

\* A quote: the text it was taken from and the limit it was cut to (0: not cut).
QuoteLimit == 240
StubQuoteLimit == 200
TakeWholeText(text, limit) == [text |-> text, cut |-> 0]
take_quote(text, limit) == [text |-> text, cut |-> IF StrLen(text) <= limit THEN 0 ELSE limit]
QuoteLen(q) == IF q.cut = 0 THEN StrLen(q.text) ELSE q.cut

(***************************************************************************)
(* storage.py: the tables are sets of rows; an autoincrement id is the     *)
(* number of rows plus one (no row is ever deleted).                       *)
(***************************************************************************)
NextId(table) == Cardinality(table) + 1

\* upsert_episode: looked up by source_url when the source has one.
upsert_episode(table, episode) ==
    LET existing == IF episode.source_url # NoneStr
                    THEN {r \in table : r.source_url = episode.source_url}
                    ELSE {}
    IN  IF existing # {}
        THEN LET old == CHOOSE r \in existing : TRUE
                 new == [old EXCEPT !.title = IF episode.title # NoneStr THEN episode.title ELSE @]
             IN  [table |-> (table \ {old}) \cup {new}, row |-> new]
        ELSE LET created == [id |-> NextId(table), source_url |-> episode.source_url,
                             title |-> episode.title]
             IN  [table |-> table \cup {created}, row |-> created]

\* upsert_segments: the loop from element i on; a segment is looked up by hash.
RECURSIVE SegmentsLoop(_, _, _, _, _)
SegmentsLoop(table, episode_id, segs, i, stored) ==
    IF i > Len(segs) THEN [table |-> table, stored |-> stored]
    ELSE LET seg == segs[i]
             existing == {r \in table : r.hash = seg.hash}
         IN  IF existing # {}
             THEN SegmentsLoop(table, episode_id, segs, i + 1,
                               Append(stored, CHOOSE r \in existing : TRUE))
             ELSE LET created == [id |-> NextId(table), episode_id |-> episode_id,
                                  speaker |-> seg.speaker, t_start_sec |-> seg.t_start_sec,
                                  t_end_sec |-> seg.t_end_sec, text |-> seg.text,
                                  hash |-> seg.hash]
                  IN  SegmentsLoop(table \cup {created}, episode_id, segs, i + 1,
                                   Append(stored, created))

upsert_segments_taking_over(table, episode_id, segs) ==
    LET r == SegmentsLoop(table, episode_id, segs, 1, <<>>)
        TakeOver(row) == [row EXCEPT !.episode_id = episode_id]
    IN  [table |-> {IF \E i \in 1..Len(r.stored) : r.stored[i] = row THEN TakeOver(row) ELSE row :
                       row \in r.table},
         stored |-> [i \in 1..Len(r.stored) |-> TakeOver(r.stored[i])]]
upsert_segments(table, episode_id, segs) == SegmentsLoop(table, episode_id, segs, 1, <<>>)

\* upsert_topics: every topic is inserted, none is looked up.
RECURSIVE TopicsLoop(_, _, _, _, _)
TopicsLoop(table, episode_id, tops, i, stored) ==
    IF i > Len(tops) THEN [table |-> table, stored |-> stored]
    ELSE LET created == [id |-> NextId(table), episode_id |-> episode_id,
                         name |-> tops[i].name, start_seg_id |-> tops[i].start_seg_id,
                         end_seg_id |-> tops[i].end_seg_id]
         IN  TopicsLoop(table \cup {created}, episode_id, tops, i + 1, Append(stored, created))

upsert_topics_once_per_name(table, episode_id, tops) ==
    LET IsNew(t) == ~\E r \in table : r.episode_id = episode_id /\ r.name = t.name
    IN  TopicsLoop(table, episode_id, SelectSeq(tops, IsNew), 1, <<>>)
upsert_topics(table, episode_id, tops) == TopicsLoop(table, episode_id, tops, 1, <<>>)

\* The identity key of a chunk: hash_text(chunk.chunk_text).
ChunkHashWithTopicId(chunk) == hash_text(<<chunk.topic_id, chunk.chunk_text>>)
ChunkHash(chunk) == hash_text(chunk.chunk_text)

\* upsert_chunks: a chunk is looked up by hash; a new one gets its chunk_segments rows.
RECURSIVE ChunksLoop(_, _, _, _, _, _)
ChunksLoop(table, cs_table, episode_id, chs, i, stored) ==
    IF i > Len(chs) THEN [table |-> table, chunk_segments |-> cs_table, stored |-> stored]
    ELSE LET chunk == chs[i]
             hash_value == ChunkHash(chunk)
             existing == {r \in table : r.chunk_hash = hash_value}
         IN  IF existing # {}
             THEN ChunksLoop(table, cs_table, episode_id, chs, i + 1,
                             Append(stored, CHOOSE r \in existing : TRUE))
             ELSE LET created == [id |-> NextId(table), episode_id |-> episode_id,
                                  topic_id |-> chunk.topic_id,
                                  start_seg_id |-> chunk.start_seg_id,
                                  end_seg_id |-> chunk.end_seg_id,
                                  t_start_sec |-> chunk.t_start_sec,
                                  t_end_sec |-> chunk.t_end_sec,
                                  chunk_text |-> chunk.chunk_text,
                                  chunk_hash |-> hash_value]
                      rows == {[chunk_id |-> created.id, segment_id |-> chunk.segment_ids[k],
                                ord |-> k - 1] : k \in 1..Len(chunk.segment_ids)}
                  IN  ChunksLoop(table \cup {created}, cs_table \cup rows, episode_id, chs, i + 1,
                                 Append(stored, created))

upsert_chunks(table, cs_table, episode_id, chs) ==
    ChunksLoop(table, cs_table, episode_id, chs, 1, <<>>)

\* upsert_entities: looked up by normalized canonical name; aliases are kept as a
\* set (the code stores sorted(set(existing.aliases + ent.aliases))).
ReplaceAliases(existing_aliases, ent_aliases) == ent_aliases
MergeAliases(existing_aliases, ent_aliases) == existing_aliases \cup ent_aliases

RECURSIVE EntitiesLoop(_, _, _, _, _)
EntitiesLoop(table, episode_id, ents, i, stored) ==
    IF i > Len(ents) THEN [table |-> table, stored |-> stored]
    ELSE LET ent == ents[i]
             canonical == normalize_name(ent.canonical_name)
             existing == {r \in table : r.canonical_name = canonical}
         IN  IF existing # {}
             THEN LET old == CHOOSE r \in existing : TRUE
                      new == [old EXCEPT !.last_seen_episode_id = episode_id,
                                         !.aliases = MergeAliases(@, ent.aliases)]
                      kept == [k \in 1..Len(stored) |->
                                 IF stored[k].id = old.id THEN new ELSE stored[k]]
                  IN  EntitiesLoop((table \ {old}) \cup {new}, episode_id, ents, i + 1,
                                   Append(kept, new))
             ELSE LET created == [id |-> NextId(table), type |-> ent.type,
                                  canonical_name |-> canonical, aliases |-> ent.aliases,
                                  first_seen_episode_id |-> episode_id,
                                  last_seen_episode_id |-> episode_id]
                  IN  EntitiesLoop(table \cup {created}, episode_id, ents, i + 1,
                                   Append(stored, created))

upsert_entities_restamping(table, episode_id, ents) ==
    LET r == EntitiesLoop(table, episode_id, ents, 1, <<>>)
        Restamp(row) == [row EXCEPT !.first_seen_episode_id = episode_id]
    IN  [table |-> {IF \E i \in 1..Len(r.stored) : r.stored[i] = row THEN Restamp(row) ELSE row :
                       row \in r.table},
         stored |-> [i \in 1..Len(r.stored) |-> Restamp(r.stored[i])]]
upsert_entities(table, episode_id, ents) == EntitiesLoop(table, episode_id, ents, 1, <<>>)

\* upsert_assertions: looked up by the hash of (episode, statement, speaker, segment ids).
AssertionHash(a) == hash_text(<<a.episode_id, a.statement, a.speaker, a.segment_ids>>)

RECURSIVE AssertionsLoop(_, _, _, _)
AssertionsLoop(table, asserts, i, stored) ==
    IF i > Len(asserts) THEN [table |-> table, stored |-> stored]
    ELSE LET a == asserts[i]
             hash_value == AssertionHash(a)
             existing == {r \in table : r.hash = hash_value}
         IN  IF existing # {}
             THEN AssertionsLoop(table, asserts, i + 1,
                                 Append(stored, CHOOSE r \in existing : TRUE))
             ELSE LET created == [id |-> NextId(table), episode_id |-> a.episode_id,
                                  entity_id |-> a.entity_id, statement |-> a.statement,
                                  speaker |-> a.speaker, segment_ids |-> a.segment_ids,
                                  evidence_quote |-> a.evidence_quote, hash |-> hash_value]
                  IN  AssertionsLoop(table \cup {created}, asserts, i + 1, Append(stored, created))

InsertAssertionsAlways(table, asserts) ==
    LET row(k) == [id |-> NextId(table) + k - 1, episode_id |-> asserts[k].episode_id,
                   entity_id |-> asserts[k].entity_id, statement |-> asserts[k].statement,
                   speaker |-> asserts[k].speaker, segment_ids |-> asserts[k].segment_ids,
                   evidence_quote |-> asserts[k].evidence_quote,
                   hash |-> AssertionHash(asserts[k])]
    IN  [table |-> table \cup {row(k) : k \in 1..Len(asserts)},
         stored |-> [k \in 1..Len(asserts) |-> row(k)]]
upsert_assertions(table, asserts) == AssertionsLoop(table, asserts, 1, <<>>)

\* upsert_cards: one row per entity_id; an existing row takes the four fields of
\* the card, a missing one is created from the card.
KeepExistingCard(existing, card) == existing
OverwriteCard(existing, card) ==
    [existing EXCEPT !.short_definition = card.short_definition,
                     !.key_points = card.key_points,
                     !.comparisons = card.comparisons,
                     !.recent_summary = card.recent_summary]

RECURSIVE CardsLoop(_, _, _, _)
CardsLoop(table, cds, i, stored) ==
    IF i > Len(cds) THEN [table |-> table, stored |-> stored]
    ELSE LET card == cds[i]
             existing == {r \in table : r.entity_id = card.entity_id}
             row == IF existing # {} THEN OverwriteCard(CHOOSE r \in existing : TRUE, card)
                    ELSE [entity_id |-> card.entity_id,
                          short_definition |-> card.short_definition,
                          key_points |-> card.key_points,
                          comparisons |-> card.comparisons,
                          recent_summary |-> card.recent_summary]
             kept == [k \in 1..Len(stored) |->
                        IF stored[k].entity_id = card.entity_id THEN row ELSE stored[k]]
         IN  CardsLoop((table \ existing) \cup {row}, cds, i + 1, Append(kept, row))

\* The foreign key of tech_cards.entity_id on entities.id: the flush of a card
\* whose entity_id is the id of no Entity row raises.
ForeignKeyUnchecked(cds, entity_table) == TRUE
ForeignKeyHolds(cds, entity_table) ==
    \A i \in 1..Len(cds) : \E e \in entity_table : e.id = cds[i].entity_id

upsert_cards(table, cds) == CardsLoop(table, cds, 1, <<>>)

\* The embedding settings of config.get_settings.
EmbeddingModel == "text-embedding-3-small"
EmbeddingDims == 1536

\* fetch_embeddings: the ids, among object_ids, with a record under the key.
fetch_embeddings(table, object_type, object_ids, model_name, dims) ==
    IF object_ids = <<>> THEN {}
    ELSE {r.object_id : r \in {x \in table :
                                  /\ x.object_type = object_type
                                  /\ \E i \in 1..Len(object_ids) : x.object_id = object_ids[i]
                                  /\ x.model_name = model_name
                                  /\ x.dims = dims}}

\* upsert_embeddings: the record under the key takes the vector, a missing one is
\* inserted.
RECURSIVE EmbeddingsLoop(_, _, _, _, _, _, _)
EmbeddingsLoop(table, object_type, object_ids, vectors, model_name, dims, i) ==
    IF i > Min(Len(object_ids), Len(vectors)) THEN table
    ELSE LET existing == {r \in table : /\ r.object_type = object_type
                                        /\ r.object_id = object_ids[i]
                                        /\ r.model_name = model_name
                                        /\ r.dims = dims}
         IN  IF existing # {}
             THEN LET old == CHOOSE r \in existing : TRUE
                  IN  EmbeddingsLoop((table \ {old}) \cup {[old EXCEPT !.embedding = vectors[i]]},
                                     object_type, object_ids, vectors, model_name, dims, i + 1)
             ELSE EmbeddingsLoop(table \cup {[id |-> NextId(table), object_type |-> object_type,
                                              object_id |-> object_ids[i],
                                              model_name |-> model_name, dims |-> dims,
                                              embedding |-> vectors[i]]},
                                 object_type, object_ids, vectors, model_name, dims, i + 1)

upsert_embeddings(table, object_type, object_ids, vectors, model_name, dims) ==
    EmbeddingsLoop(table, object_type, object_ids, vectors, model_name, dims, 1)

\* embeddings.embed_chunks: the chunks with an id and no record under the current
\* model name and dimensionality are embedded, one vector per text, and stored.
\* missing is what the embedding client was given.
EmbedAllChunks(table, items) == items
MissingEmbeddings(table, items) ==
    LET existing == fetch_embeddings(table, "chunk", [i \in 1..Len(items) |-> items[i].id],
                                     EmbeddingModel, EmbeddingDims)
    IN  SelectSeq(items, LAMBDA chunk : chunk.id \notin existing)

embed_documents(texts) == [i \in 1..Len(texts) |-> <<"vector", texts[i]>>]

embed_chunks(table, chs) ==
    LET items == SelectSeq(chs, LAMBDA chunk : chunk.id # NoneId)
        missing == IF items = <<>> THEN <<>> ELSE MissingEmbeddings(table, items)
        vectors == embed_documents([i \in 1..Len(missing) |-> missing[i].chunk_text])
    IN  [missing |-> missing,
         table |-> IF missing = <<>> THEN table
                   ELSE upsert_embeddings(table, "chunk",
                                          [i \in 1..Len(missing) |-> missing[i].id], vectors,
                                          EmbeddingModel, EmbeddingDims)]

(***************************************************************************)
(* nodes.py: qa_chain, the fusion of the retrieval results.  A distance    *)
(* and a score are exact fractions <<numerator, denominator>> with a       *)
(* positive denominator.                                                   *)
(***************************************************************************)
FracLess(a, b) == a[1] * b[2] < b[1] * a[2]

\* score = 1.0 / (1.0 + distance)
score_of(distance) == <<distance[2], distance[2] + distance[1]>>

\* chunk_scores.get(chunk.id, 0.0)
NoScore == <<0, 1>>

\* max(chunk_scores.get(chunk.id, 0.0), score)
KeepLastScore(prev, score) == score
AddScores(prev, score) == <<prev[1] * score[2] + score[1] * prev[2], prev[2] * score[2]>>
max_score(prev, score) == IF FracLess(prev, score) THEN score ELSE prev

\* The "for chunk, distance in chunk_results" loop from result i on; a result is
\* <<chunk id, distance>>.
RECURSIVE FuseResults(_, _, _)
FuseResults(chunk_scores, chunk_results, i) ==
    IF i > Len(chunk_results) THEN chunk_scores
    ELSE LET chunk_id == chunk_results[i][1]
             score == score_of(chunk_results[i][2])
             prev == IF chunk_id \in DOMAIN chunk_scores THEN chunk_scores[chunk_id]
                     ELSE NoScore
         IN  FuseResults([c \in DOMAIN chunk_scores \cup {chunk_id} |->
                             IF c = chunk_id THEN max_score(prev, score) ELSE chunk_scores[c]],
                         chunk_results, i + 1)

\* The keys of chunk_scores in the order the dict keeps them, the order of their
\* insertion: the same loop, from result i on.
RECURSIVE FuseKeys(_, _, _)
FuseKeys(chunk_keys, chunk_results, i) ==
    IF i > Len(chunk_results) THEN chunk_keys
    ELSE LET chunk_id == chunk_results[i][1]
         IN  FuseKeys(IF \E k \in 1..Len(chunk_keys) : chunk_keys[k] = chunk_id
                      THEN chunk_keys ELSE Append(chunk_keys, chunk_id),
                      chunk_results, i + 1)

\* sorted(chunk_scores.keys(), key=lambda cid: chunk_scores[cid], reverse=True): a
\* stable sort, so a key goes behind the keys already placed whose score is not
\* lower than its own.
GoesBehindHigherOnly(placed, score) == FracLess(score, placed)
GoesBehind(placed, score) == ~FracLess(placed, score)

RECURSIVE InsertByScore(_, _, _)
InsertByScore(ranked, chunk_id, chunk_scores) ==
    IF ranked = <<>> THEN <<chunk_id>>
    ELSE IF GoesBehind(chunk_scores[ranked[Len(ranked)]], chunk_scores[chunk_id])
         THEN Append(ranked, chunk_id)
         ELSE Append(InsertByScore(SubSeq(ranked, 1, Len(ranked) - 1), chunk_id, chunk_scores),
                     ranked[Len(ranked)])

RECURSIVE SortedByScore(_, _)
SortedByScore(chunk_keys, chunk_scores) ==
    IF chunk_keys = <<>> THEN <<>>
    ELSE InsertByScore(SortedByScore(SubSeq(chunk_keys, 1, Len(chunk_keys) - 1), chunk_scores),
                       chunk_keys[Len(chunk_keys)], chunk_scores)

\* The chunks with an embedding and the queries of one question.
MaxQaChunks == 2
MaxQaQueries == 2
QaChunkIds == 1..MaxQaChunks

\* No query has been searched.  returned keeps the distances each chunk was
\* returned at, first the query and the place in its results where each chunk was
\* first returned; chunk_ids is the ranking, made when the loop has ended.
QaNotRun ==
    [queries |-> 0, chunk_scores |-> <<>>, chunk_keys |-> <<>>, chunk_ids |-> <<>>,
     returned |-> [c \in QaChunkIds |-> {}], first |-> [c \in QaChunkIds |-> <<0, 0>>],
     done |-> FALSE]

\* No result of the query optimizer: queries is the number of queries of a result.
NoOptimized == [queries |-> 0, top_k |-> 0]

\* ask_command has not been called.  The fields after optimized observe qa_chain:
\* whether the retrieval raised, the ranked chunk ids, their segment ids, the tier
\* the hits came from, the ids of the hits, and the citations of the answer.
AskNotRun ==
    [pc |-> "idle", episode_id |-> NoneId, question |-> "", stub_llm |-> FALSE,
     optimized |-> NoOptimized, raised |-> FALSE, chunk_ids |-> <<>>,
     chunk_segment_ids |-> <<>>, tier |-> 0, hits |-> <<>>, citations |-> <<>>]

\* call_json has not been called.  attempt counts the passes of the attempt loop
\* begun, tries keeps what the two strategies did in each pass.
CallNotRun == [pc |-> "idle", task |-> NoneStr, stub_llm |-> FALSE, attempt |-> 0, tries |-> <<>>]

\* The two runs whose upserts interleave.
RaceRuns == {"A", "B"}

\* No upsert is in progress.  table is the table the two runs upsert the same
\* identity key into, rows its committed rows with that key, pos where each run is
\* in its upsert, pending whether it has flushed an insert it has not committed.
RaceNotRun ==
    [pc |-> "idle", table |-> NoneStr, rows |-> {}, pos |-> [r \in RaceRuns |-> "start"],
     pending |-> [r \in RaceRuns |-> FALSE]]

\* No upsert call is in progress: no session is open.
NoRows == [chunks |-> {}, chunk_segments |-> {}, entities |-> {}]
TxnNotRun ==
    [pc |-> "idle", calls |-> 0, op |-> NoneStr, episode_id |-> NoneId, batch |-> <<>>, i |-> 0,
     work |-> NoRows, before |-> NoRows]

(***************************************************************************)
(* The sources and the parsers (parsers/lex.py, parsers/generic.py).  A    *)
(* source always parses to the same result.  u1 and u2 are transcript      *)
(* pages that open with the same line; f1 is a local file, which the       *)
(* generic parser turns into one segment and an episode with no source     *)
(* URL.  u3 is a page with too few lines for the transcript parser.        *)
(***************************************************************************)
Sources == {"u1", "u2", "u3", "f1"}

\* LexTranscriptParser.parse: one segment per timestamped line.
LexSegment(speaker, t, text) ==
    [id |-> NoneId, episode_id |-> NoneId, speaker |-> speaker, t_start_sec |-> t,
     t_end_sec |-> NoneId, text |-> text, hash |-> hash_text(<<speaker, ToString(t), text>>)]

\* GenericTextParser.parse: the whole text as one segment.
GenericSegment(text) ==
    [id |-> NoneId, episode_id |-> NoneId, speaker |-> NoneStr, t_start_sec |-> NoneId,
     t_end_sec |-> NoneId, text |-> text, hash |-> hash_text(<<text>>)]

\* The fewest segments LexTranscriptParser accepts.
MinLexSegments == 30

\* The transcript behind a URL: n lines, two speakers taking turns, every episode
\* opening with the same line.
LexTranscript(url, n) ==
    [i \in 1..n |->
        IF i = 1 THEN LexSegment("Lex", 0, "intro")
        ELSE LexSegment(IF i % 2 = 1 THEN "Lex" ELSE "Guest", 10 * (i - 1),
                        url \o "-" \o ToString(i))]

\* LexTranscriptParser.parse raises when it recovered fewer than 30 segments
\* (len(segments) < 30): whether a transcript of n segments is returned.
LexAcceptsAny(n) == TRUE
LexAccepts(n) == ~(n < MinLexSegments)

\* LexTranscriptParser.parse on the page behind a URL, of n lines.
LexParse(url, title, n) ==
    LET segs == LexTranscript(url, n)
    IN  [ok |-> LexAccepts(Len(segs)), episode |-> [source_url |-> url, title |-> title],
         segments |-> segs]

\* The parse of a source: ok is FALSE when the parser raises.
ParseSource(source) ==
    CASE source = "u1" -> LexParse("u1", "E1", MinLexSegments)
      [] source = "u2" -> LexParse("u2", "E2", MinLexSegments + 1)
      [] source = "u3" -> LexParse("u3", "E3", MinLexSegments - 1)
      [] source = "f1" ->
            [ok |-> TRUE, episode |-> [source_url |-> NoneStr, title |-> NoneStr],
             segments |-> << GenericSegment("f1") >>]

(***************************************************************************)
(* The Extraction Oracle (llm.call_json): the results it may return for    *)
(* each task.  The first of each set is what llm._stub returns.            *)
(***************************************************************************)
TopicResults(segs) ==
    LET n == Len(segs)
        mid == segs[Min(6, n)].id
    IN  { << [name |-> "Overview", start_seg_id |-> NoneId, end_seg_id |-> NoneId] >>,
          << [name |-> "T1", start_seg_id |-> segs[1].id, end_seg_id |-> mid],
             [name |-> "Overview", start_seg_id |-> mid, end_seg_id |-> segs[n].id] >> }

EntityResults(segs) ==
    LET long == IF Len(segs) = 1 THEN "machine intelligence" ELSE "artificial intelligence"
    IN  { << [type |-> "concept", canonical_name |-> "AI", aliases |-> {long}],
             [type |-> "model", canonical_name |-> "GPT  4", aliases |-> {}],
             [type |-> "concept", canonical_name |-> " ai ", aliases |-> {"A.I."}] >> }

AssertionResults(segs, episode_id) ==
    LET seg == segs[1]
        stub == [episode_id |-> episode_id, entity_id |-> NoneId,
                 statement |-> take_quote(seg.text, StubQuoteLimit),
                 speaker |-> IF seg.speaker = NoneStr THEN "Unknown" ELSE seg.speaker,
                 segment_ids |-> <<seg.id>>,
                 evidence_quote |-> take_quote(seg.text, StubQuoteLimit)]
    IN  { << stub,
             [stub EXCEPT !.segment_ids = <<NoneId>>, !.statement = take_quote("nowhere", QuoteLimit)],
             [stub EXCEPT !.segment_ids = <<segs[Len(segs)].id, NoneId>>,
                          !.evidence_quote = take_quote("", QuoteLimit)],
             [stub EXCEPT !.statement = take_quote("it scales", QuoteLimit),
                          !.evidence_quote = [text |-> seg.text, cut |-> 0]] >> }

\* The stub's card per entity; the cards of an Oracle that leaves the first
\* definition empty and summarises the episode; the stub's cards followed by a
\* card for an entity id that no entity has; each with needs_refine false or true.
CardResults(ents, episode_id) ==
    LET full == [i \in 1..Len(ents) |->
                    [entity_id |-> ents[i].id,
                     short_definition |-> "is a key concept discussed.",
                     key_points |-> <<"Appears in the transcript">>,
                     comparisons |-> <<>>,
                     recent_summary |-> "No recent updates in this episode."]]
        blank == [i \in 1..Len(ents) |->
                    [full[i] EXCEPT !.short_definition = IF i = 1 THEN "" ELSE @,
                                    !.key_points = <<"point", i>>,
                                    !.recent_summary = <<"episode", episode_id>>]]
        foreign == Append(full, [full[1] EXCEPT !.entity_id = Len(ents) + 1])
    IN  {[cards |-> c, needs_refine |-> b] : c \in {full, blank, foreign}, b \in BOOLEAN}

(***************************************************************************)
(* graph.py: build_ingest_graph                                            *)
(***************************************************************************)
\* should_refine, on the state card_upserter returned.
RefineLimit == 2
should_refine_below_three(st) == IF st.needs_refine /\ st.refine_count < 3 THEN "refine" ELSE "END"
should_refine(st) == IF st.needs_refine /\ st.refine_count < RefineLimit THEN "refine" ELSE "END"

\* The edges: add_edge for every node but "cards", whose conditional edge maps
\* should_refine's "refine" to "assertions" and END to "index".
NextNodeSkippingPersist(node, st) ==
    CASE node = "parse" -> "topics"
      [] node = "topics" -> "chunk_builder"
      [] node = "chunk_builder" -> "entities"
      [] node = "chunk_persist" -> "entities"
      [] node = "entities" -> "assertions"
      [] node = "assertions" -> "cards"
      [] node = "cards" -> IF should_refine(st) = "refine" THEN "assertions" ELSE "index"
      [] node = "index" -> "END"
NextNode(node, st) ==
    CASE node = "parse" -> "topics"
      [] node = "topics" -> "chunk_builder"
      [] node = "chunk_builder" -> "chunk_persist"
      [] node = "chunk_persist" -> "entities"
      [] node = "entities" -> "assertions"
      [] node = "assertions" -> "cards"
      [] node = "cards" -> IF should_refine(st) = "refine" THEN "assertions" ELSE "index"
      [] node = "index" -> "END"

Nodes == {"parse", "topics", "chunk_builder", "chunk_persist", "entities", "assertions",
          "cards", "index"}

(***************************************************************************)
(* The ingestion pipeline: cli.ingest_command starts a run, then one       *)
(* action per node of the graph.                                           *)
(***************************************************************************)
MaxRuns == 2
MaxExec == 4

tables == <<episodes, segments, topics, chunks, chunk_segments, entities, assertions, cards,
            embeddings>>
winvars == <<win_in, win_out>>
askvars == <<ask, call, race, txn>>
vars == <<tables, pc, state, run, ingested, windowed, winvars, qa, askvars>>

SeqToSet(q) == {q[i] : i \in 1..Len(q)}

\* The state ingest_command passes to graph.invoke.
InitialState(source) ==
    [source |-> source, episode_id |-> NoneId, episode_title |-> NoneStr,
     segments |-> <<>>, topics |-> <<>>, chunks |-> <<>>, entities |-> <<>>,
     assertions |-> <<>>, cards |-> <<>>, refine_count |-> 0, needs_refine |-> FALSE]

\* What is observed of the current run: n is its number, exec the executions of each
\* node, refines the traversals of the refine edge, always_refine whether every card
\* result so far asked for a refinement, reingested whether its source had been
\* ingested before, rewindowed whether its windowing input had been windowed before,
\* embedded the ids of the chunks its indexer had vectors computed for, error the
\* node that raised.
NoRun == [n |-> 0, exec |-> [node \in Nodes |-> 0], refines |-> 0, always_refine |-> TRUE,
          reingested |-> FALSE, rewindowed |-> FALSE, embedded |-> {}, error |-> NoneStr]

Executed(node) == [run EXCEPT !.exec[node] = Min(@ + 1, MaxExec)]

\* The key of a windowing input: the segments and the topics' names and boundaries.
WindowKey(st) ==
    [segments |-> st.segments,
     topics |-> [i \in 1..Len(st.topics) |->
                    [name |-> st.topics[i].name, start_seg_id |-> st.topics[i].start_seg_id,
                     end_seg_id |-> st.topics[i].end_seg_id]]]

\* The windower has not run.
WinNotRun == [done |-> FALSE, ok |-> TRUE, chunks |-> <<>>]

Init ==
    /\ episodes = {} /\ segments = {} /\ topics = {} /\ chunks = {} /\ chunk_segments = {}
    /\ entities = {} /\ assertions = {} /\ cards = {} /\ embeddings = {}
    /\ pc = "idle"
    /\ state = InitialState(NoneStr)
    /\ run = NoRun
    /\ ingested = {}
    /\ windowed = {}
    /\ win_in = [segments |-> <<>>, topics |-> <<>>, params |-> DefaultParams]
    /\ win_out = WinNotRun
    /\ qa = QaNotRun
    /\ ask = AskNotRun
    /\ call = CallNotRun
    /\ race = RaceNotRun
    /\ txn = TxnNotRun

\* ingest_command: graph.invoke on a fresh state with refine_count 0.
StartRun ==
    /\ pc = "idle"
    /\ run.n < MaxRuns
    /\ \E source \in Sources : state' = InitialState(source)
    /\ pc' = "parse"
    /\ run' = [NoRun EXCEPT !.n = run.n + 1]
    /\ UNCHANGED <<tables, ingested, windowed, winvars, qa, askvars>>

\* A node raised: no node catches and the graph has no error edge, so the run
\* aborts there and graph.invoke raises to ingest_command.
RaiseSwallowed(node) ==
    /\ pc' = NextNode(node, state)
    /\ run' = [Executed(node) EXCEPT !.error = node]
    /\ UNCHANGED <<state, tables, ingested, windowed, winvars, qa, askvars>>
Raise(node) ==
    /\ pc' = "FAILED"
    /\ run' = [Executed(node) EXCEPT !.error = node]
    /\ UNCHANGED <<state, tables, ingested, windowed, winvars, qa, askvars>>

parse_and_segment ==
    /\ pc = "parse"
    /\ ParseSource(state.source).ok
    /\ LET result == ParseSource(state.source)
           e == upsert_episode(episodes, result.episode)
           g == upsert_segments(segments, e.row.id, result.segments)
           st == [state EXCEPT !.episode_id = e.row.id, !.episode_title = e.row.title,
                               !.segments = g.stored]
       IN  /\ episodes' = e.table
           /\ segments' = g.table
           /\ state' = st
           /\ pc' = NextNode("parse", st)
           /\ ingested' = ingested \cup {[source |-> state.source, episode_id |-> st.episode_id,
                                          segments |-> st.segments]}
    /\ run' = [Executed("parse") EXCEPT
                  !.reingested = \E r \in ingested : r.source = state.source]
    /\ UNCHANGED <<topics, chunks, chunk_segments, entities, assertions, cards, embeddings,
                   windowed, winvars, qa, askvars>>

\* parse_and_segment when the parser raises: nothing has been stored.
parse_failure ==
    /\ pc = "parse"
    /\ ~ParseSource(state.source).ok
    /\ Raise("parse")

topic_threader ==
    /\ pc = "topics"
    /\ \/ \E result \in TopicResults(state.segments) :
             LET t == upsert_topics(topics, state.episode_id, result)
                 st == [state EXCEPT !.topics = t.stored]
             IN  /\ topics' = t.table
                 /\ state' = st
                 /\ pc' = NextNode("topics", st)
                 /\ run' = Executed("topics")
                 /\ UNCHANGED <<episodes, segments, chunks, chunk_segments, entities, assertions,
                                cards, embeddings, ingested, windowed, winvars, qa, askvars>>
       \/ Raise("topics")

chunk_builder ==
    /\ pc = "chunk_builder"
    /\ LET st == [state EXCEPT !.chunks =
                    build_chunks_from_topics(state.topics, state.segments, DefaultParams).chunks]
       IN  /\ state' = st
           /\ pc' = NextNode("chunk_builder", st)
    /\ run' = Executed("chunk_builder")
    /\ UNCHANGED <<tables, ingested, windowed, winvars, qa, askvars>>

chunk_persist ==
    /\ pc = "chunk_persist"
    /\ LET c == upsert_chunks(chunks, chunk_segments, state.episode_id, state.chunks)
           st == [state EXCEPT !.chunks = c.stored]
       IN  /\ chunks' = c.table
           /\ chunk_segments' = c.chunk_segments
           /\ state' = st
           /\ pc' = NextNode("chunk_persist", st)
    /\ windowed' = windowed \cup {WindowKey(state)}
    /\ run' = [Executed("chunk_persist") EXCEPT !.rewindowed = WindowKey(state) \in windowed]
    /\ UNCHANGED <<episodes, segments, topics, entities, assertions, cards, embeddings,
                   ingested, winvars, qa, askvars>>

entity_extractor ==
    /\ pc = "entities"
    /\ \/ \E result \in EntityResults(state.segments) :
             LET r == upsert_entities(entities, state.episode_id, result)
                 st == [state EXCEPT !.entities = r.stored]
             IN  /\ entities' = r.table
                 /\ state' = st
                 /\ pc' = NextNode("entities", st)
                 /\ run' = Executed("entities")
                 /\ UNCHANGED <<episodes, segments, topics, chunks, chunk_segments, assertions,
                                cards, embeddings, ingested, windowed, winvars, qa, askvars>>
       \/ Raise("entities")

\* The segment ids of an Oracle assertion that are ids of the context's segments
\* (seg_lookup holds the segments whose id is not None).
KeepAllIds(ids, segs) == ids
ContextIds(ids, segs) ==
    SelectSeq(ids, LAMBDA sid : sid # NoneId /\ \E i \in 1..Len(segs) : segs[i].id = sid)

\* The post-processing of assertion_extractor: the episode is set, the segment ids
\* are cut to those of the context, an assertion left with none is dropped, and a
\* missing or over-long quote is replaced.
PostProcess(result, segs, episode_id) ==
    LET fix(a) ==
            LET ids == ContextIds(a.segment_ids, segs)
                found == {x \in SeqToSet(segs) : x.id = ids[1] /\ x.id # NoneId}
                quote == IF QuoteLen(a.evidence_quote) = 0 \/ QuoteLen(a.evidence_quote) > QuoteLimit
                         THEN IF found # {}
                              THEN take_quote((CHOOSE x \in found : TRUE).text, QuoteLimit)
                              ELSE take_quote(a.statement.text, QuoteLimit)
                         ELSE a.evidence_quote
            IN  [a EXCEPT !.episode_id = episode_id, !.segment_ids = ids, !.evidence_quote = quote]
        kept == SelectSeq(result, LAMBDA a : ContextIds(a.segment_ids, segs) # <<>>)
    IN  [i \in 1..Len(kept) |-> fix(kept[i])]

assertion_extractor ==
    /\ pc = "assertions"
    /\ \/ \E result \in AssertionResults(state.segments, state.episode_id) :
             LET r == upsert_assertions(assertions,
                                        PostProcess(result, state.segments, state.episode_id))
                 st == [state EXCEPT !.assertions = r.stored]
             IN  /\ assertions' = r.table
                 /\ state' = st
                 /\ pc' = NextNode("assertions", st)
                 /\ run' = Executed("assertions")
                 /\ UNCHANGED <<episodes, segments, topics, chunks, chunk_segments, entities,
                                cards, embeddings, ingested, windowed, winvars, qa, askvars>>
       \/ Raise("assertions")

\* card_upserter's returned state for an Oracle result, and the cards table.
CardStep(st, table, result) ==
    IF result.needs_refine
    THEN [state |-> [st EXCEPT !.needs_refine = TRUE, !.refine_count = st.refine_count + 1],
          table |-> table]
    ELSE LET r == upsert_cards(table, result.cards)
         IN  [state |-> [st EXCEPT !.cards = r.stored,
                                   !.needs_refine =
                                       \E i \in 1..Len(result.cards) :
                                           result.cards[i].short_definition = "",
                                   !.refine_count = st.refine_count],
               table |-> r.table]

card_upserter ==
    /\ pc = "cards"
    /\ \/ \E result \in CardResults(state.entities, state.episode_id) :
             IF ~result.needs_refine /\ ~ForeignKeyHolds(result.cards, entities)
             THEN Raise("cards")
             ELSE LET r == CardStep(state, cards, result)
                      target == NextNode("cards", r.state)
                  IN  /\ cards' = r.table
                      /\ state' = r.state
                      /\ pc' = target
                      /\ run' = [Executed("cards") EXCEPT
                                    !.refines = IF target = "assertions" THEN Min(@ + 1, MaxExec)
                                                ELSE @,
                                    !.always_refine = @ /\ result.needs_refine]
                      /\ UNCHANGED <<episodes, segments, topics, chunks, chunk_segments, entities,
                                     assertions, embeddings, ingested, windowed, winvars, qa, askvars>>
       \/ Raise("cards")

\* fetch_chunks_for_episode: the episode's chunks, in the order of their ids.
RECURSIVE RowsById(_)
RowsById(rows) ==
    IF rows = {} THEN <<>>
    ELSE LET first == CHOOSE r \in rows : \A x \in rows : r.id <= x.id
         IN  <<first>> \o RowsById(rows \ {first})

fetch_chunks_for_episode(episode_id) == RowsById({c \in chunks : c.episode_id = episode_id})

\* indexer: embed_chunks on the run's chunks, or the episode's when it has none.
\* The embedding client is needed, and may fail, only when a chunk has no record.
\* run.embedded keeps the ids of the chunks the client was given.
indexer ==
    /\ pc = "index"
    /\ LET chs == IF state.chunks # <<>> THEN state.chunks
                  ELSE fetch_chunks_for_episode(state.episode_id)
           r == embed_chunks(embeddings, chs)
       IN  \/ /\ embeddings' = r.table
              /\ pc' = NextNode("index", state)
              /\ run' = [Executed("index") EXCEPT !.embedded = {c.id : c \in SeqToSet(r.missing)}]
              /\ UNCHANGED <<state, episodes, segments, topics, chunks, chunk_segments, entities,
                             assertions, cards, ingested, windowed, winvars, qa, askvars>>
           \/ /\ r.missing # <<>>
              /\ Raise("index")

\* ingest_command returns (or the error of the failed node reaches the caller):
\* the run's state record is gone, the tables stay.
Exit ==
    /\ pc \in {"END", "FAILED"}
    /\ pc' = "idle"
    /\ state' = InitialState(NoneStr)
    /\ run' = [NoRun EXCEPT !.n = run.n]
    /\ UNCHANGED <<tables, ingested, windowed, winvars, qa, askvars>>

Next ==
    \/ StartRun
    \/ Exit
    \/ parse_and_segment
    \/ parse_failure
    \/ topic_threader
    \/ chunk_builder
    \/ chunk_persist
    \/ entity_extractor
    \/ assertion_extractor
    \/ card_upserter
    \/ indexer

Spec == Init /\ [][Next]_vars

\* graph.invoke runs one node after the other and never pauses: the node at which a
\* run stands returns or raises, and the run moves on.
NodeReturns == pc \in Nodes /\ \E target \in Nodes \cup {"END", "FAILED"} : pc' = target

FairSpec == Spec /\ WF_pc(NodeReturns)

(***************************************************************************)
(* Properties of the ingestion pipeline.                                   *)
(***************************************************************************)

\* C1: with an Oracle whose card result asks for a refinement on every call, and no
\* node raising, a run started with refine_count 0 reaches END after exactly 2
\* traversals of the refine edge, so that assertion_extractor has executed exactly
\* 3 times.
C1_AlwaysRefineTwoRefinements ==
    (pc = "END" /\ run.always_refine)
        => (run.refines = 2 /\ run.exec["assertions"] = 3)

\* C2: whatever the Oracle answers, a run in which no node raises eventually reaches
\* END: the refine loop cannot repeat forever.
C2_RunTerminates == (pc = "parse") ~> (pc \in {"END", "FAILED"})

\* C3: during a run started with refine_count 0, refine_count is between 0 and 2, it
\* never decreases, and the refine edge is taken only with refine_count below 2.
C3_RefineCountBounded ==
    /\ [](state.refine_count \in 0..2)
    /\ [][(pc # "idle" /\ pc' # "idle") => state'.refine_count >= state.refine_count]_vars
    /\ [][(pc = "cards" /\ pc' = "assertions")
            => (state.refine_count < 2 /\ state'.refine_count < 2)]_vars

\* A run went through the refine edge and left the loop with refine_count 2.
C3_Witness == pc = "index" /\ state.refine_count = 2 /\ run.refines >= 1

\* The edges a successful run may follow.
C4_Order ==
    {<<"parse", "topics">>, <<"topics", "chunk_builder">>,
     <<"chunk_builder", "chunk_persist">>, <<"chunk_persist", "entities">>,
     <<"entities", "assertions">>, <<"assertions", "cards">>, <<"cards", "assertions">>,
     <<"cards", "index">>, <<"index", "END">>}

\* C4: a successful run executes parse, topics, chunk_builder, chunk_persist,
\* entities, assertions, cards, then (assertions, cards) any number of times, then
\* index, then ends; the five nodes before assertions and index execute exactly once
\* and the only back edge goes from cards to assertions.
C4_NodeOrder ==
    /\ [][(pc \in Nodes /\ pc' # pc /\ pc' # "FAILED") => <<pc, pc'>> \in C4_Order]_vars
    /\ [][(pc = "idle" /\ pc' # pc) => pc' = "parse"]_vars
    /\ [](pc = "END" =>
            /\ \A node \in {"parse", "topics", "chunk_builder", "chunk_persist", "entities",
                            "index"} : run.exec[node] = 1
            /\ run.exec["assertions"] >= 1
            /\ run.exec["assertions"] = run.exec["cards"])

\* A successful run that went through the refine edge.
C4_Witness == pc = "END" /\ run.exec["assertions"] >= 2 /\ run.exec["index"] = 1

\* C5: ingesting a source that has been ingested before, be it a URL or a local file,
\* creates no Episode row and no Segment row, and returns the Episode id and the
\* segments of the first run.
C5_ReingestSameEpisode ==
    [][(pc = "parse" /\ \E r \in ingested : r.source = state.source)
        => /\ episodes' = episodes
           /\ segments' = segments
           /\ \A r \in ingested :
                 r.source = state.source
                    => (state'.episode_id = r.episode_id /\ state'.segments = r.segments)]_vars

\* C6: chunk_builder and chunk_persist run again on segments and topics (names and
\* boundaries) that were windowed before insert no Chunk row and no chunk_segments
\* row, leave the set of chunk hashes as it was, and return stored chunks only.
C6_RewindowIdempotent ==
    [][(pc = "chunk_persist" /\ WindowKey(state) \in windowed)
        => /\ chunks' = chunks
           /\ chunk_segments' = chunk_segments
           /\ {c.chunk_hash : c \in chunks'} = {c.chunk_hash : c \in chunks}
           /\ SeqToSet(state'.chunks) \subseteq chunks]_vars

\* A second run has windowed the segments and topics of an earlier one into
\* several chunks.
C6_Witness == run.rewindowed /\ pc = "entities" /\ Len(state.chunks) >= 2

\* The Segment row with the given id.
SegmentRow(id) == CHOOSE r \in segments : r.id = id

\* The chunk_segments rows of a chunk.
MembersOf(chunk_id) == {cs \in chunk_segments : cs.chunk_id = chunk_id}

\* C11: after any sequence of ingestion runs, every persisted Chunk's member
\* segments belong to the chunk's own episode and are listed in ascending
\* segment-id order.
C11_ChunkWithinEpisode ==
    \A c \in chunks :
        /\ \A cs \in MembersOf(c.id) :
              /\ \E r \in segments : r.id = cs.segment_id
              /\ SegmentRow(cs.segment_id).episode_id = c.episode_id
        /\ \A x, y \in MembersOf(c.id) : x.ord < y.ord => x.segment_id < y.segment_id

\* The Assertion rows an execution of assertion_extractor inserts, each with an
\* Oracle assertion it was made from.
C12_Inserted(row, o) ==
    /\ row \in assertions' \ assertions
    /\ row.statement = o.statement
    /\ row.speaker = o.speaker
    /\ row.segment_ids = ContextIds(o.segment_ids, state.segments)

\* C12: no persisted Assertion has an evidence quote longer than 240 characters;
\* an Oracle quote that is missing or longer is replaced by the quote of at most
\* 240 characters of the text of the assertion's first referenced segment.
C12_EvidenceBound ==
    /\ [](\A a \in assertions : QuoteLen(a.evidence_quote) <= 240)
    /\ [][pc = "assertions" =>
            \A row \in assertions' \ assertions :
                \E result \in AssertionResults(state.segments, state.episode_id) :
                    \E k \in 1..Len(result) :
                        /\ C12_Inserted(row, result[k])
                        /\ IF QuoteLen(result[k].evidence_quote) = 0
                              \/ QuoteLen(result[k].evidence_quote) > 240
                           THEN row.evidence_quote =
                                    take_quote(SegmentRow(row.segment_ids[1]).text, 240)
                           ELSE row.evidence_quote = result[k].evidence_quote]_vars

\* Assertions are persisted whose Oracle quote was missing or over-long, replaced
\* by quotes cut to 240 characters, next to one whose Oracle quote was kept.
C12_Witness ==
    /\ \E a \in assertions :
          /\ a.evidence_quote = take_quote(SegmentRow(a.segment_ids[1]).text, QuoteLimit)
          /\ QuoteLen(a.evidence_quote) = QuoteLimit
          /\ a.segment_ids[1] # 1
    /\ \E a \in assertions :
          /\ a.statement = take_quote("it scales", QuoteLimit)
          /\ QuoteLen(a.evidence_quote) = QuoteLimit
    /\ \E a \in assertions : QuoteLen(a.evidence_quote) = StubQuoteLimit

\* The ids of the segments in the extraction context of the current run.
C13_Context == {state.segments[i].id : i \in 1..Len(state.segments)} \ {NoneId}

\* C13: every Assertion that assertion_extractor persists or returns has a
\* non-empty segment_ids list of ids of segments of the run's extraction context
\* and the run's episode_id; an Oracle assertion with no segment id in the context
\* is not persisted.
C13_SegmentIdsInContext ==
    [][pc = "assertions" =>
        /\ \A row \in (assertions' \ assertions) \cup SeqToSet(state'.assertions) :
              /\ row.segment_ids # <<>>
              /\ SeqToSet(row.segment_ids) \subseteq C13_Context
              /\ row.episode_id = state.episode_id
        /\ \A result \in AssertionResults(state.segments, state.episode_id) :
              \A k \in 1..Len(result) :
                 SeqToSet(result[k].segment_ids) \cap C13_Context = {}
                    => ~\E row \in assertions' :
                          /\ row.statement = result[k].statement
                          /\ row.episode_id = state.episode_id]_vars

\* An execution persisted assertions, one of them from an Oracle assertion of
\* which one segment id was outside the context, while the Oracle's result held an
\* assertion with no segment id in the context.
C13_Witness ==
    /\ pc = "cards"
    /\ \E row \in assertions :
          row.episode_id = state.episode_id /\ row.segment_ids = <<state.segments[Len(state.segments)].id>>
    /\ \E result \in AssertionResults(state.segments, state.episode_id) :
          /\ \E k \in 1..Len(result) : SeqToSet(result[k].segment_ids) \cap C13_Context = {}
          /\ \E k \in 1..Len(result) :
                /\ SeqToSet(result[k].segment_ids) \cap C13_Context # {}
                /\ ~(SeqToSet(result[k].segment_ids) \subseteq C13_Context)
    /\ Len(state.assertions) >= 3

\* C14: when assertion_extractor runs again in a run (a refinement pass, on which
\* the Oracle returns assertions with the same statement, speaker and segment
\* ids), no Assertion row is inserted or modified and the assertions returned are
\* those of the first pass, so the number of assertions does not change over the
\* refine loop.
C14_ReextractionNoOp ==
    [][(pc = "assertions" /\ run.exec["assertions"] >= 1 /\ pc' = "cards")
        => /\ assertions' = assertions
           /\ state'.assertions = state.assertions
           /\ Cardinality(assertions') = Cardinality(assertions)]_vars

\* A refinement pass has re-extracted the assertions of the first pass.
C14_Witness ==
    /\ pc = "cards"
    /\ run.exec["assertions"] >= 2
    /\ Len(state.assertions) >= 3
    /\ SeqToSet(state.assertions) \subseteq assertions

\* The normal form of the names the Oracle writes and of the stored names: trimmed,
\* whitespace runs collapsed, lower-cased.
C15_Normalized(name) ==
    CASE name \in {"AI", " ai ", "ai"} -> "ai"
      [] name \in {"GPT  4", "gpt 4"} -> "gpt 4"
      [] OTHER -> name

\* C15: no two Entity rows have canonical names that are equal after
\* normalization, and an execution of upsert_entities with a name that normalizes
\* to the name of an existing row creates no row for it and sets that row's
\* last_seen episode to the current episode.
C15_EntityUniqueUnderNormalization ==
    /\ [](\A a, b \in entities :
              C15_Normalized(a.canonical_name) = C15_Normalized(b.canonical_name) => a = b)
    /\ [][(pc = "entities" /\ pc' = "assertions")
            => \A result \in EntityResults(state.segments) : \A k \in 1..Len(result) : \A old \in entities :
                  C15_Normalized(old.canonical_name) = C15_Normalized(result[k].canonical_name)
                  => /\ \E new \in entities' :
                           /\ new.id = old.id
                           /\ new.last_seen_episode_id = state.episode_id
                     /\ \A r \in entities' :
                           C15_Normalized(r.canonical_name) = C15_Normalized(old.canonical_name)
                           => r.id = old.id]_vars

\* A second episode has re-extracted the names of the first: two rows for the three
\* names the Oracle wrote, each first seen in one episode and last seen in another.
C15_Witness ==
    /\ pc = "assertions"
    /\ run.n = 2
    /\ Cardinality(entities) = 2
    /\ \A e \in entities : /\ e.first_seen_episode_id # e.last_seen_episode_id
                           /\ e.last_seen_episode_id = state.episode_id

\* The aliases the Oracle supplied, in one result, for the names that normalize to
\* the name of a row.
C16_Supplied(result, canonical) ==
    UNION {result[k].aliases : k \in {j \in 1..Len(result) :
                                        normalize_name(result[j].canonical_name) = canonical}}

\* C16: entity aliases only grow: no step removes an entity or an alias of it, and
\* after an execution of upsert_entities the alias set of every entity is the union
\* of its alias set before (empty when the execution created it) and of the
\* aliases supplied for it.
C16_AliasesOnlyGrow ==
    /\ [][\A old \in entities : \E new \in entities' :
              new.id = old.id /\ old.aliases \subseteq new.aliases]_vars
    /\ [][(pc = "entities" /\ pc' = "assertions")
            => \A result \in EntityResults(state.segments) : \A new \in entities' :
                  LET before == UNION {old.aliases : old \in {r \in entities : r.id = new.id}}
                  IN  new.aliases = before \cup C16_Supplied(result, new.canonical_name)]_vars

\* A later run has supplied an alias the entity did not have, and not supplied one
\* that it had.
C16_Witness ==
    /\ pc = "assertions"
    /\ run.n = 2
    /\ \E e \in entities :
          /\ e.aliases = {"artificial intelligence", "machine intelligence", "A.I."}
          /\ \E result \in EntityResults(state.segments) :
                /\ "machine intelligence" \in C16_Supplied(result, e.canonical_name)
                /\ "artificial intelligence" \notin C16_Supplied(result, e.canonical_name)

C18_LastFor(cds, entity_id) ==
    cds[CHOOSE k \in 1..Len(cds) :
            /\ cds[k].entity_id = entity_id
            /\ \A j \in (k + 1)..Len(cds) : cds[j].entity_id # entity_id]

\* C18: there is at most one Card per entity id, and after an execution of
\* upsert_cards the four fields of the Card of every entity of the batch are those
\* of the last card of the batch for that entity, while the other Cards are as
\* they were.
C18_OneCardLastWins ==
    /\ [](\A a, b \in cards : a.entity_id = b.entity_id => a = b)
    /\ [][(pc = "cards" /\ pc' \in {"assertions", "index"})
            => \A result \in CardResults(state.entities, state.episode_id) :
                  (~result.needs_refine /\ state' = CardStep(state, cards, result).state)
                  => /\ \A k \in 1..Len(result.cards) :
                           LET last == C18_LastFor(result.cards, result.cards[k].entity_id)
                           IN  \E row \in cards' :
                                   /\ row.entity_id = last.entity_id
                                   /\ row.short_definition = last.short_definition
                                   /\ row.key_points = last.key_points
                                   /\ row.comparisons = last.comparisons
                                   /\ row.recent_summary = last.recent_summary
                     /\ \A old \in cards :
                           (\A k \in 1..Len(result.cards) :
                                result.cards[k].entity_id # old.entity_id)
                           => old \in cards']_vars

\* The second run has upserted a batch with two cards for the same entity: the
\* Card of that entity has the fields of the later of the two.
C18_Witness ==
    /\ pc \in {"assertions", "index"}
    /\ run.n = 2
    /\ run.exec["cards"] >= 1
    /\ Len(state.cards) = 3
    /\ state.cards[1].entity_id = state.cards[3].entity_id
    /\ \E row \in cards :
          /\ row.entity_id = state.cards[1].entity_id
          /\ row.short_definition # ""
          /\ row.key_points = <<"point", 3>>
          /\ row.recent_summary = <<"episode", state.episode_id>>

\* The chunks the indexer is about to work on.
C19_Chunks ==
    IF state.chunks # <<>> THEN SeqToSet(state.chunks)
    ELSE {c \in chunks : c.episode_id = state.episode_id}

\* A record of the embeddings table under the current key for a chunk id.
C19_Embedded(table, chunk_id) ==
    \E e \in table : /\ e.object_type = "chunk"
                     /\ e.object_id = chunk_id
                     /\ e.model_name = EmbeddingModel
                     /\ e.dims = EmbeddingDims

\* C19: there is at most one Embedding record per key (object kind, object id,
\* model name, dimensionality), and an execution of the indexer has vectors
\* computed for exactly the chunks with no record under the current model name and
\* dimensionality: every record that existed is left as it was, and the new
\* records are one per such chunk.
C19_OneEmbeddingPerKey ==
    /\ [](\A a, b \in embeddings :
              (/\ a.object_type = b.object_type /\ a.object_id = b.object_id
               /\ a.model_name = b.model_name /\ a.dims = b.dims) => a = b)
    /\ [][(pc = "index" /\ pc' = "END")
            => LET absent == {c.id : c \in {x \in C19_Chunks :
                                              ~C19_Embedded(embeddings, x.id)}}
               IN  /\ run'.embedded = absent
                   /\ embeddings \subseteq embeddings'
                   /\ {e.object_id : e \in embeddings' \ embeddings} = absent
                   /\ Cardinality(embeddings') = Cardinality(embeddings) + Cardinality(absent)
                   /\ \A c \in C19_Chunks : C19_Embedded(embeddings', c.id)]_vars

\* The indexer of a later run has found some of the run's chunks embedded and has
\* had vectors computed for the others.
C19_Witness ==
    /\ pc = "END"
    /\ run.n = 2
    /\ run.embedded # {}
    /\ \E c \in SeqToSet(state.chunks) : c.id \notin run.embedded
    /\ \A c \in SeqToSet(state.chunks) : C19_Embedded(embeddings, c.id)

\* A source that is a transcript page of fewer than 30 lines.
C26_ShortPage(source) ==
    /\ ParseSource(source).episode.source_url # NoneStr
    /\ Len(ParseSource(source).segments) < 30

\* C26: when the transcript parser recovers fewer than 30 segments,
\* parse_and_segment fails the run, no table is written (no episode row and no
\* segment row is created or modified), the run's state is not advanced, and the
\* only step after the failure is the return to the caller, which writes nothing
\* either: no other node has executed in the run.
C26_ParserFailureIsFatal ==
    [][ /\ (pc = "parse" /\ C26_ShortPage(state.source)) =>
              (pc' = "FAILED" /\ UNCHANGED <<tables, state>>)
        /\ (pc = "FAILED" /\ C26_ShortPage(state.source)) =>
              (/\ pc' = "idle"
               /\ UNCHANGED tables
               /\ \A node \in Nodes \ {"parse"} : run.exec[node] = 0) ]_vars

\* A run of a page of 29 lines has failed in parse_and_segment, after an earlier run
\* had stored an episode.
C26_Witness ==
    /\ pc = "FAILED"
    /\ C26_ShortPage(state.source)
    /\ run.exec["parse"] = 1
    /\ episodes # {}

C31_CardsPersistedEveryPass ==
    [][ (pc = "cards" /\ run'.error = NoneStr) =>
            \E result \in CardResults(state.entities, state.episode_id) :
                /\ result.needs_refine = (state'.refine_count > state.refine_count)
                /\ cards' = upsert_cards(cards, result.cards).table ]_vars

\* C32: topics are created fresh on every ingestion and never deduplicated: the
\* execution of topic_threader adds one new Topic row of the run's episode per topic
\* of the Oracle's result (same names and boundaries, in the result's order, under
\* ids no row had), also when the episode was ingested before; topic_threader
\* executes at most once per run, refinements included; and no step of any node
\* removes or changes a Topic row (only topic_threader adds any).
C32_TopicsAlwaysFresh ==
    [][ /\ topics \subseteq topics'
        /\ run'.exec["topics"] <= 1
        /\ (pc # "topics" \/ run'.error # NoneStr) => topics' = topics
        /\ (pc = "topics" /\ run'.error = NoneStr) =>
              \E result \in TopicResults(state.segments) :
                  /\ Len(state'.topics) = Len(result)
                  /\ Cardinality(topics') = Cardinality(topics) + Len(result)
                  /\ topics' \ topics = SeqToSet(state'.topics)
                  /\ \A i \in 1..Len(result) :
                        /\ state'.topics[i].episode_id = state.episode_id
                        /\ state'.topics[i].name = result[i].name
                        /\ state'.topics[i].start_seg_id = result[i].start_seg_id
                        /\ state'.topics[i].end_seg_id = result[i].end_seg_id
                        /\ \A r \in topics : r.id # state'.topics[i].id ]_vars

\* A run that ingested an episode again and went through a refinement has executed
\* topic_threader once, and the episode has two Topic rows of the same name and
\* boundaries.
C32_Witness ==
    /\ run.reingested
    /\ run.refines >= 1
    /\ run.exec["topics"] = 1
    /\ \E a, b \in topics : /\ a.id # b.id
                            /\ a.episode_id = state.episode_id
                            /\ b.episode_id = state.episode_id
                            /\ a.name = b.name
                            /\ a.start_seg_id = b.start_seg_id
                            /\ a.end_seg_id = b.end_seg_id

\* C33: a persisted Segment is immutable: no step of an ingestion run removes a
\* Segment row or changes one of its fields, and parse_and_segment hands on a
\* segment matched by content hash as the row that was there, with its original
\* episode_id, speaker, times and text.
C33_SegmentsImmutable ==
    [][ /\ segments \subseteq segments'
        /\ \A r \in segments' \ segments : \A o \in segments : o.id # r.id
        /\ (pc = "parse" /\ run'.error = NoneStr) =>
              LET parsed == ParseSource(state.source).segments
              IN  /\ Len(state'.segments) = Len(parsed)
                  /\ \A i \in 1..Len(parsed) : \A r \in segments :
                        r.hash = parsed[i].hash => state'.segments[i] = r ]_vars

\* A run of a second episode has matched a segment of the first by its hash: the
\* run's segments hold a row of another episode, next to rows of its own.
C33_Witness ==
    /\ run.n = 2
    /\ run.exec["parse"] = 1
    /\ \E i, j \in 1..Len(state.segments) :
          /\ state.segments[i].episode_id # state.episode_id
          /\ state.segments[i] \in segments
          /\ state.segments[j].episode_id = state.episode_id

\* C40: an entity's first_seen_episode_id, type and canonical_name are those of its
\* creation: every step keeps them in every Entity row; only entity_extractor
\* writes the table; the rows it hands on carry the run's episode as
\* last_seen_episode_id, a row it creates has it as first_seen_episode_id too, and a
\* row it does not hand on is left as it was, so last_seen_episode_id is the episode
\* of the latest run that extracted the entity.
C40_EntityCreationFieldsKept ==
    [][ /\ \A o \in entities : \E r \in entities' :
              /\ r.id = o.id
              /\ r.type = o.type
              /\ r.canonical_name = o.canonical_name
              /\ r.first_seen_episode_id = o.first_seen_episode_id
              /\ o.aliases \subseteq r.aliases
        /\ (pc # "entities" \/ run'.error # NoneStr) => entities' = entities
        /\ (pc = "entities" /\ run'.error = NoneStr) =>
              LET handed == SeqToSet(state'.entities)
              IN  /\ handed \subseteq entities'
                  /\ handed # {}
                  /\ \A r \in handed : r.last_seen_episode_id = state.episode_id
                  /\ \A r \in entities' \ handed : r \in entities
                  /\ \A r \in entities' :
                        (\A o \in entities : o.id # r.id) =>
                            /\ r \in handed
                            /\ r.first_seen_episode_id = state.episode_id ]_vars

\* The entity_extractor of a second episode has found an entity of the first: the
\* row still names the first episode as first seen and now the second as last seen.
C40_Witness ==
    /\ run.n = 2
    /\ run.exec["entities"] = 1
    /\ \E i \in 1..Len(state.entities) :
          /\ state.entities[i] \in entities
          /\ state.entities[i].first_seen_episode_id # state.episode_id
          /\ state.entities[i].last_seen_episode_id = state.episode_id

(***************************************************************************)
(* The windower on its own: the inputs are drawn in the initial state and  *)
(* one action applies build_chunks_from_topics.                            *)
(***************************************************************************)
MaxWinSegs == 4
MaxDefaultSegs == 8
MaxMinSegs == 2
MaxMaxSegs == 3
MaxOverlap == 2

\* A 1-character and a 30-character body.
WinTexts == {"s", "llllllllllllllllllllllllllllll"}
WinTokenBudgets == {10, 18, 32, DefaultMaxTokens}

\* A segment list with ids 1..n in the given order and the given texts.
WinSegment(id, text) ==
    [id |-> id, speaker |-> NoneStr, t_start_sec |-> id, t_end_sec |-> NoneId, text |-> text]

\* The lists of up to maxN segments in id order with any texts, and those in
\* reverse id order with the short text.
WinSegmentLists(maxN) ==
    UNION {{[i \in 1..n |-> WinSegment(i, texts[i])] : texts \in [1..n -> WinTexts]}
           \cup {[i \in 1..n |-> WinSegment(n + 1 - i, "s")]} : n \in 0..maxN}

WinTopic(id, name, s, e) == [id |-> id, name |-> name, start_seg_id |-> s, end_seg_id |-> e]

\* Topic lists: none; one topic over a sub-range, with the boundaries reversed, over
\* a missing id, with null boundaries; two topics; two topics, the second over one
\* segment.
WinTopicLists(n) ==
    { <<>>,
      << WinTopic(1, "T1", 2, n) >>,
      << WinTopic(1, "T1", 2, 1) >>,
      << WinTopic(1, "T1", 1, n + 1) >>,
      << WinTopic(1, "Overview", NoneId, NoneId) >>,
      << WinTopic(1, "T1", 1, 2), WinTopic(2, "T2", 2, n) >>,
      << WinTopic(1, "T1", 2, n), WinTopic(2, "T2", n, n) >> }

WinInputs ==
    {[segments |-> segs, topics |-> tops,
      params |-> [max_tokens |-> mt, min_segs |-> mn, max_segs |-> mx, overlap |-> ov]] :
        segs \in WinSegmentLists(MaxWinSegs), tops \in WinTopicLists(MaxWinSegs),
        mt \in WinTokenBudgets \ {32}, mn \in 0..MaxMinSegs, mx \in 1..MaxMaxSegs, ov \in 0..MaxOverlap}
    \cup
    {[segments |-> segs, topics |-> <<>>,
      params |-> [DefaultParams EXCEPT !.max_tokens = mt]] :
        segs \in WinSegmentLists(MaxDefaultSegs), mt \in WinTokenBudgets}

InitChunk ==
    /\ win_in \in WinInputs
    /\ win_out = WinNotRun
    /\ episodes = {} /\ segments = {} /\ topics = {} /\ chunks = {} /\ chunk_segments = {}
    /\ entities = {} /\ assertions = {} /\ cards = {} /\ embeddings = {}
    /\ pc = "idle"
    /\ state = InitialState(NoneStr)
    /\ run = NoRun
    /\ ingested = {}
    /\ windowed = {}
    /\ qa = QaNotRun
    /\ ask = AskNotRun
    /\ call = CallNotRun
    /\ race = RaceNotRun
    /\ txn = TxnNotRun

RunWindower ==
    /\ ~win_out.done
    /\ LET r == build_chunks_from_topics(win_in.topics, win_in.segments, win_in.params)
       IN  win_out' = [done |-> TRUE, ok |-> r.ok, chunks |-> r.chunks]
    /\ UNCHANGED <<win_in, tables, pc, state, run, ingested, windowed, qa, askvars>>

NextChunk == RunWindower

SpecChunk == InitChunk /\ [][NextChunk]_vars

(***************************************************************************)
(* Properties of the windower (checked under SpecChunk).                   *)
(***************************************************************************)
WinP == win_in.params
WinChunks == win_out.chunks
WinOrdered == SortById(SelectSeq(win_in.segments, LAMBDA s : s.id # NoneId))
ChunkTokens(c) == estimate_tokens(TextLen(c.chunk_text))
PosOf(id) == IndexOfId(WinOrdered, id)

\* The segment list the run of topic id tid was windowed over.
WinRunSegs(tid) ==
    IF tid = NoneId THEN WinOrdered
    ELSE LET t == CHOOSE x \in SeqToSet(win_in.topics) : x.id = tid
             r == TopicRange(t, WinOrdered)
         IN  IF Len(r) >= WinP.min_segs THEN r ELSE WinOrdered

\* Chunks k and k+1 of the output come from the same topic/segment run.
SameRun(k) == WinChunks[k].topic_id = WinChunks[k + 1].topic_id

\* The window of chunk c was emitted as taken, not shortened by trimming.
Untrimmed(c) ==
    \/ Len(c.segment_ids) = WinP.max_segs
    \/ c.end_seg_id = WinRunSegs(c.topic_id)[Len(WinRunSegs(c.topic_id))].id

SharedIds(c, d) == SeqToSet(c.segment_ids) \cap SeqToSet(d.segment_ids)

\* C7: every emitted chunk is within the token budget (max(1, chars div 4) of
\* its rendered text is at most max_tokens) or has exactly min_segs segments.
C7_WindowingBudget ==
    win_out.done =>
        \A k \in 1..Len(WinChunks) :
            \/ ChunkTokens(WinChunks[k]) <= WinP.max_tokens
            \/ Len(WinChunks[k].segment_ids) = WinP.min_segs

\* C7 witness: a window was trimmed down to min_segs and is still over budget,
\* and another emitted chunk is within budget with more than min_segs segments.
C7_Witness ==
    /\ win_out.done
    /\ \E k \in 1..Len(WinChunks) :
          /\ ChunkTokens(WinChunks[k]) > WinP.max_tokens
          /\ Len(WinChunks[k].segment_ids) = WinP.min_segs
          /\ WinP.min_segs < WinP.max_segs
    /\ \E k \in 1..Len(WinChunks) :
          /\ ChunkTokens(WinChunks[k]) <= WinP.max_tokens
          /\ Len(WinChunks[k].segment_ids) > WinP.min_segs

\* C8 as stated: two consecutive chunks of one run, the earlier not shortened by
\* trimming, share exactly `overlap` segments, the first `overlap` segments of
\* the later being the last `overlap` segments of the earlier.
C8_OverlapExactlyAsStated ==
    win_out.done =>
        \A k \in 1..(Len(WinChunks) - 1) :
            (SameRun(k) /\ Untrimmed(WinChunks[k])) =>
                LET c == WinChunks[k].segment_ids
                    d == WinChunks[k + 1].segment_ids
                IN  /\ Cardinality(SharedIds(WinChunks[k], WinChunks[k + 1])) = WinP.overlap
                    /\ Len(d) >= WinP.overlap
                    /\ Len(c) >= WinP.overlap
                    /\ SubSeq(d, 1, WinP.overlap) = SubSeq(c, Len(c) - WinP.overlap + 1, Len(c))

\* C8 amended: the later chunk starts max(1, len(earlier) - overlap) positions
\* after the earlier one; when overlap < len(earlier) and the later chunk has at
\* least `overlap` segments, the two share exactly `overlap` segments, the first
\* `overlap` of the later being the last `overlap` of the earlier (trimmed or not).
C8_OverlapAmended ==
    win_out.done =>
        \A k \in 1..(Len(WinChunks) - 1) :
            SameRun(k) =>
                LET c == WinChunks[k].segment_ids
                    d == WinChunks[k + 1].segment_ids
                IN  /\ PosOf(d[1]) = PosOf(c[1]) + Max(1, Len(c) - WinP.overlap)
                    /\ (WinP.overlap < Len(c) /\ Len(d) >= WinP.overlap) =>
                          /\ Cardinality(SharedIds(WinChunks[k], WinChunks[k + 1])) = WinP.overlap
                          /\ SubSeq(d, 1, WinP.overlap) = SubSeq(c, Len(c) - WinP.overlap + 1, Len(c))

\* C8 witness: two consecutive chunks of one run, the earlier one trimmed, that
\* share exactly overlap >= 1 segments.
C8_Witness ==
    /\ win_out.done
    /\ WinP.overlap >= 1
    /\ \E k \in 1..(Len(WinChunks) - 1) :
          /\ SameRun(k)
          /\ ~Untrimmed(WinChunks[k])
          /\ WinP.overlap < Len(WinChunks[k].segment_ids)
          /\ Cardinality(SharedIds(WinChunks[k], WinChunks[k + 1])) = WinP.overlap

\* The inputs of C9: no topics, the default min_segs, max_segs and overlap, and
\* at least two segments (any token budget, so that windows get trimmed).
DefaultRun ==
    /\ win_in.topics = <<>>
    /\ WinP.min_segs = DefaultMinSegs
    /\ WinP.max_segs = DefaultMaxSegs
    /\ WinP.overlap = DefaultOverlap
    /\ Len(win_in.segments) >= 2

\* C9: with no topics and the default parameters every segment of a list of at
\* least two segments is in some emitted chunk, trimmed windows included, and no
\* chunk is emitted truncated below min_segs: only a trailing window that cannot
\* reach min_segs is dropped.
C9_DefaultCoverage ==
    (win_out.done /\ DefaultRun) =>
        /\ win_out.ok
        /\ \A i \in 1..Len(win_in.segments) :
              \E k \in 1..Len(WinChunks) : win_in.segments[i].id \in SeqToSet(WinChunks[k].segment_ids)
        /\ \A k \in 1..Len(WinChunks) : Len(WinChunks[k].segment_ids) >= DefaultMinSegs
        /\ WinChunks[Len(WinChunks)].end_seg_id = WinOrdered[Len(WinOrdered)].id

\* C9 witness: a default run over more segments than one window holds, in which
\* a window was trimmed by the token budget.
C9_Witness ==
    /\ win_out.done
    /\ DefaultRun
    /\ Len(win_in.segments) > DefaultMaxSegs
    /\ \E k \in 1..(Len(WinChunks) - 1) : ~Untrimmed(WinChunks[k])
    /\ \E k \in 1..Len(WinChunks) : Len(WinChunks[k].segment_ids) = DefaultMaxSegs

\* C10: every emitted chunk has at least min_segs and at most max_segs segments.
C10_ChunkSizeBounds ==
    win_out.done =>
        \A k \in 1..Len(WinChunks) :
            /\ Len(WinChunks[k].segment_ids) >= WinP.min_segs
            /\ Len(WinChunks[k].segment_ids) <= WinP.max_segs

\* C10 witness: chunks were emitted, one of them trimmed, and the trailing
\* window, shorter than min_segs, was dropped (the last segment is in no chunk).
C10_Witness ==
    /\ win_out.done
    /\ Len(WinChunks) >= 1
    /\ \E k \in 1..Len(WinChunks) : ~Untrimmed(WinChunks[k])
    /\ \A k \in 1..Len(WinChunks) :
          WinOrdered[Len(WinOrdered)].id \notin SeqToSet(WinChunks[k].segment_ids)

\* The segments a topic is to be chunked over: the inclusive sub-range of the
\* ID-sorted list from start_seg_id to end_seg_id when both ids are in the list, the
\* start is not after the end and the sub-range has at least min_segs segments; the
\* full list otherwise.
C34_Range(topic) ==
    LET At(id) == {i \in 1..Len(WinOrdered) : WinOrdered[i].id = id}
        s == At(topic.start_seg_id)
        e == At(topic.end_seg_id)
    IN  IF topic.start_seg_id # NoneId /\ topic.end_seg_id # NoneId /\ s # {} /\ e # {}
        THEN LET a == CHOOSE i \in s : TRUE
                 b == CHOOSE i \in e : TRUE
             IN  IF a <= b /\ b - a + 1 >= WinP.min_segs
                 THEN [i \in 1..(b - a + 1) |-> WinOrdered[a + i - 1]]
                 ELSE WinOrdered
        ELSE WinOrdered

\* The chunks of the topics from the i-th on, each windowed over its C34_Range.
RECURSIVE C34_ChunksFrom(_)
C34_ChunksFrom(i) ==
    IF i > Len(win_in.topics) THEN <<>>
    ELSE _build_topic_chunks(win_in.topics[i], C34_Range(win_in.topics[i]), WinP).chunks
             \o C34_ChunksFrom(i + 1)

\* C34: build_chunks_from_topics chunks every topic, in the order of the topics,
\* over exactly its inclusive sub-range of the ID-sorted segments when both
\* boundary ids are in the list, the start is not after the end and the sub-range
\* has at least min_segs segments, and over the full list in every other case; with
\* no topics it chunks the full list once, with no topic.
C34_TopicSubRange ==
    (win_out.done /\ win_out.ok) =>
        IF win_in.topics = <<>>
        THEN /\ WinChunks = _build_topic_chunks(NoTopic, WinOrdered, WinP).chunks
             /\ \A k \in 1..Len(WinChunks) : WinChunks[k].topic_id = NoneId
        ELSE WinChunks = C34_ChunksFrom(1)

\* Of two topics the first was chunked over its sub-range, which does not start
\* the list, and the second, whose sub-range is one segment, short of min_segs, over
\* the full list.
C34_Witness ==
    /\ win_out.done
    /\ win_out.ok
    /\ Len(win_in.topics) = 2
    /\ WinP.min_segs = 2
    /\ Len(C34_Range(win_in.topics[1])) < Len(WinOrdered)
    /\ win_in.topics[2].start_seg_id = win_in.topics[2].end_seg_id
    /\ \E k \in 1..Len(WinChunks) :
          /\ WinChunks[k].topic_id = win_in.topics[1].id
          /\ WinChunks[k].start_seg_id = win_in.topics[1].start_seg_id
          /\ WinChunks[k].start_seg_id # WinOrdered[1].id
    /\ \E k \in 1..Len(WinChunks) :
          /\ WinChunks[k].topic_id = win_in.topics[2].id
          /\ WinChunks[k].start_seg_id = WinOrdered[1].id
          /\ WinChunks[k].start_seg_id # win_in.topics[2].start_seg_id

\* C35: every chunk build_chunks_from_topics emits covers a contiguous run of the
\* ID-sorted segment list: its segment_ids are strictly ascending and are the ids of
\* consecutive positions of the sorted list (none in between is skipped),
\* start_seg_id and end_seg_id are its first and last member ids, and its time span
\* runs from the first member's start to the last member's end.
C35_ChunkIsContiguousRun ==
    win_out.done =>
        \A k \in 1..Len(WinChunks) :
            LET c == WinChunks[k]
                n == Len(c.segment_ids)
            IN  /\ n >= 1
                /\ \A i \in 1..(n - 1) : c.segment_ids[i] < c.segment_ids[i + 1]
                /\ \E a \in 1..Len(WinOrdered) :
                      /\ a + n - 1 <= Len(WinOrdered)
                      /\ \A i \in 1..n : c.segment_ids[i] = WinOrdered[a + i - 1].id
                      /\ c.t_start_sec = WinOrdered[a].t_start_sec
                      /\ c.t_end_sec = WinOrdered[a + n - 1].t_end_sec
                /\ c.start_seg_id = c.segment_ids[1]
                /\ c.end_seg_id = c.segment_ids[n]

\* The segments came in descending id order, and a chunk of several segments was
\* emitted that does not start the sorted list.
C35_Witness ==
    /\ win_out.done
    /\ Len(win_in.segments) >= 3
    /\ win_in.segments[1].id > win_in.segments[2].id
    /\ \E k \in 1..Len(WinChunks) :
          /\ Len(WinChunks[k].segment_ids) >= 2
          /\ WinChunks[k].start_seg_id # WinOrdered[1].id
          /\ WinChunks[k].t_start_sec = WinChunks[k].start_seg_id

\* C38: when overlap < min_segs, every chunk after the first of a segment run has
\* a segment that is in no earlier chunk of the run; in particular the segment set
\* of no chunk is a subset of that of the chunk before it.
C38_EveryChunkBringsNewSegment ==
    (win_out.done /\ WinP.overlap < WinP.min_segs) =>
        \A k \in 2..Len(WinChunks) :
            WinChunks[k - 1].topic_id = WinChunks[k].topic_id =>
                /\ ~(SeqToSet(WinChunks[k].segment_ids) \subseteq
                         SeqToSet(WinChunks[k - 1].segment_ids))
                /\ \E id \in SeqToSet(WinChunks[k].segment_ids) :
                      \A j \in 1..(k - 1) :
                          WinChunks[j].topic_id = WinChunks[k].topic_id =>
                              id \notin SeqToSet(WinChunks[j].segment_ids)

\* With the default overlap 1 and min_segs 2 a run gave three chunks, the second
\* trimmed by the token budget, each sharing a segment with the one before it.
C38_Witness ==
    /\ win_out.done
    /\ WinP.overlap = DefaultOverlap
    /\ WinP.min_segs = DefaultMinSegs
    /\ Len(WinChunks) >= 3
    /\ \A k \in 1..2 : /\ SameRun(k)
                       /\ SharedIds(WinChunks[k], WinChunks[k + 1]) # {}
    /\ ~Untrimmed(WinChunks[2])

(***************************************************************************)
(* The windowing loop of _build_topic_chunks step by step: every step is   *)
(* one pass of "while idx < total" over one segment run.                   *)
(***************************************************************************)
\* Overlaps up to one more than the largest max_segs.
LoopOverlaps == 0..(MaxMaxSegs + 1)

\* Segment runs in id order: all bodies short, all long, or long and short in turn.
LoopSegmentLists ==
    {[i \in 1..n |-> WinSegment(i, text)] : n \in 0..MaxWinSegs, text \in WinTexts}
    \cup {[i \in 1..n |-> WinSegment(i, IF i % 2 = 1 THEN "llllllllllllllllllllllllllllll" ELSE "s")] :
             n \in 2..MaxWinSegs}

LoopInputs ==
    {[segments |-> segs, topics |-> <<>>,
      params |-> [max_tokens |-> mt, min_segs |-> mn, max_segs |-> mx, overlap |-> ov]] :
        segs \in LoopSegmentLists,
        mt \in {10, DefaultMaxTokens}, mn \in 1..MaxMinSegs, mx \in 1..MaxMaxSegs,
        ov \in LoopOverlaps}

\* _build_topic_chunks has not been called; at the call idx = 0 and there is no chunk.
LoopNotCalled == [done |-> FALSE, ok |-> TRUE, chunks |-> <<>>, idx |-> 0, called |-> FALSE]

InitLoop ==
    /\ win_in = [segments |-> <<>>, topics |-> <<>>, params |-> DefaultParams]
    /\ win_out = LoopNotCalled
    /\ episodes = {} /\ segments = {} /\ topics = {} /\ chunks = {} /\ chunk_segments = {}
    /\ entities = {} /\ assertions = {} /\ cards = {} /\ embeddings = {}
    /\ pc = "idle"
    /\ state = InitialState(NoneStr)
    /\ run = NoRun
    /\ ingested = {}
    /\ windowed = {}
    /\ qa = QaNotRun
    /\ ask = AskNotRun
    /\ call = CallNotRun
    /\ race = RaceNotRun
    /\ txn = TxnNotRun

looprest == <<tables, pc, state, run, ingested, windowed, qa, askvars>>

\* The call of _build_topic_chunks with a segment run and parameters.
LoopCall ==
    /\ ~win_out.called
    /\ win_in' \in LoopInputs
    /\ win_out' = [LoopNotCalled EXCEPT !.called = TRUE]
    /\ UNCHANGED looprest

\* One pass of the while loop that emits a chunk and moves idx.
WindowEmit ==
    /\ win_out.called
    /\ ~win_out.done
    /\ win_out.idx < Len(win_in.segments)
    /\ LET p == win_in.params
           idx == win_out.idx
           window0 == SubSeq(win_in.segments, idx + 1, Min(Len(win_in.segments), idx + p.max_segs))
           window == TrimWindow(NoTopic, window0, p.max_tokens, p.min_segs)
       IN  /\ ~WindowTooShort(window0, p.min_segs)
           /\ ~WindowTooShort(window, p.min_segs)
           /\ win_out' = [win_out EXCEPT
                             !.chunks = Append(@, _make_chunk(NoTopic, window,
                                                              _build_chunk_text(NoTopic, window))),
                             !.idx = idx + Advance(window, p.overlap)]
    /\ UNCHANGED <<win_in, looprest>>

\* The loop ends: idx has reached total, or a window is shorter than min_segs (break).
WindowReturn ==
    /\ win_out.called
    /\ ~win_out.done
    /\ LET p == win_in.params
           idx == win_out.idx
           window0 == SubSeq(win_in.segments, idx + 1, Min(Len(win_in.segments), idx + p.max_segs))
           window == TrimWindow(NoTopic, window0, p.max_tokens, p.min_segs)
       IN  \/ ~(idx < Len(win_in.segments))
           \/ WindowTooShort(window0, p.min_segs)
           \/ WindowTooShort(window, p.min_segs)
    /\ win_out' = [win_out EXCEPT !.done = TRUE]
    /\ UNCHANGED <<win_in, looprest>>

NextLoop == LoopCall \/ WindowEmit \/ WindowReturn

SpecLoop == InitLoop /\ [][NextLoop]_vars

\* The interpreter keeps executing the loop.
FairSpecLoop == SpecLoop /\ WF_win_out(WindowEmit \/ WindowReturn)

\* C37: the windowing loop terminates for every parameter combination with
\* min_segs >= 1, overlap >= max_segs and overlap >= the window length included:
\* idx goes up by at least 1 with every emitted chunk, a run of N segments yields
\* at most N chunks, and the loop returns.
C37_WindowLoopTerminates ==
    /\ [][Len(win_out'.chunks) > Len(win_out.chunks) => win_out'.idx >= win_out.idx + 1]_vars
    /\ [](Len(win_out.chunks) <= Len(win_in.segments))
    /\ win_out.called ~> win_out.done

\* With overlap >= max_segs and min_segs = 1 the loop has returned after emitting
\* as many chunks as there are segments.
C37_Witness ==
    /\ win_out.done
    /\ win_in.params.min_segs = 1
    /\ win_in.params.overlap >= win_in.params.max_segs
    /\ win_in.params.max_segs >= 2
    /\ Len(win_in.segments) >= 3
    /\ Len(win_out.chunks) = Len(win_in.segments)
    /\ win_out.chunks = _build_topic_chunks(NoTopic, win_in.segments, win_in.params).chunks

(***************************************************************************)
(* The retrieval fusion on its own: every step searches one more query,    *)
(* whose result similarity_search_chunks orders by distance, each chunk at *)
(* most once.                                                              *)
(***************************************************************************)
\* Cosine distances.
DistanceGrid == {<<0, 1>>, <<1, 10>>, <<1, 2>>, <<2, 1>>}

QaResults ==
    {r \in UNION {[1..k -> QaChunkIds \X DistanceGrid] : k \in 0..MaxQaChunks} :
        /\ \A i, j \in 1..Len(r) : i # j => r[i][1] # r[j][1]
        /\ \A i, j \in 1..Len(r) : i < j => ~FracLess(r[j][2], r[i][2])}

\* One pass of "for q in queries": the query is searched and its results fused.
QaQuery ==
    /\ ~qa.done
    /\ qa.queries < MaxQaQueries
    /\ \E chunk_results \in QaResults :
          qa' = [qa EXCEPT
                    !.queries = @ + 1,
                    !.chunk_scores = FuseResults(@, chunk_results, 1),
                    !.chunk_keys = FuseKeys(@, chunk_results, 1),
                    !.first = [c \in QaChunkIds |->
                                  IF @[c] # <<0, 0>> THEN @[c]
                                  ELSE IF \E j \in 1..Len(chunk_results) : chunk_results[j][1] = c
                                       THEN <<qa.queries + 1,
                                              CHOOSE j \in 1..Len(chunk_results) :
                                                  chunk_results[j][1] = c>>
                                       ELSE <<0, 0>>],
                    !.returned = [c \in QaChunkIds |->
                                     @[c] \cup {chunk_results[i][2] :
                                                  i \in {j \in 1..Len(chunk_results) :
                                                           chunk_results[j][1] = c}}]]
    /\ UNCHANGED <<tables, pc, state, run, ingested, windowed, winvars, askvars>>

\* The loop over the queries (there is at least one) has ended: the chunk ids are
\* ranked.
QaFused ==
    /\ ~qa.done
    /\ qa.queries >= 1
    /\ qa' = [qa EXCEPT !.done = TRUE,
                        !.chunk_ids = SortedByScore(qa.chunk_keys, qa.chunk_scores)]
    /\ UNCHANGED <<tables, pc, state, run, ingested, windowed, winvars, askvars>>

NextFuse == QaQuery \/ QaFused

SpecFuse == Init /\ [][NextFuse]_vars

(***************************************************************************)
(* Properties of the retrieval fusion (checked under SpecFuse).            *)
(***************************************************************************)
\* C20: the fused score of every chunk returned by at least one query is
\* 1/(1+distance) for the smallest distance it was returned at, which is the
\* maximum of 1/(1+distance) over the queries that returned it; a chunk no query
\* returned has no score.  The fused score is one of the scores the queries gave
\* the chunk and none of them exceeds it, so it is neither their sum nor their
\* average.
C20_FusedScoreIsMax ==
    \A c \in QaChunkIds :
        IF qa.returned[c] = {} THEN c \notin DOMAIN qa.chunk_scores
        ELSE /\ c \in DOMAIN qa.chunk_scores
             /\ \E d \in qa.returned[c] :
                   /\ \A e \in qa.returned[c] : ~FracLess(e, d)
                   /\ qa.chunk_scores[c] = <<d[2], d[2] + d[1]>>
             /\ \A e \in qa.returned[c] :
                   ~FracLess(qa.chunk_scores[c], <<e[2], e[2] + e[1]>>)
             /\ \E e \in qa.returned[c] : qa.chunk_scores[c] = <<e[2], e[2] + e[1]>>

\* Two queries returned a chunk, at distance 0.1 and at distance 0.5, and its fused
\* score is 1/(1+0.1); another chunk was returned by one query only.
C20_Witness ==
    /\ qa.done
    /\ qa.queries = 2
    /\ \E c \in QaChunkIds :
          /\ qa.returned[c] = {<<1, 10>>, <<1, 2>>}
          /\ qa.chunk_scores[c] = <<10, 11>>
    /\ \E c \in QaChunkIds : Cardinality(qa.returned[c]) = 1

\* An earlier first encounter: an earlier query, or an earlier place in the results
\* of the same query.
C21_FirstBefore(a, b) == a[1] < b[1] \/ (a[1] = b[1] /\ a[2] < b[2])

\* C21: the fused chunk ids are the chunks some query returned, each once, ranked
\* by descending fused score, and of two chunks with equal fused score the one
\* first encountered earlier (iterating the queries in order and each query's
\* results in order) comes first.
C21_RankedByScoreStable ==
    qa.done =>
        /\ {qa.chunk_ids[i] : i \in 1..Len(qa.chunk_ids)} = {c \in QaChunkIds : qa.returned[c] # {}}
        /\ \A i, j \in 1..Len(qa.chunk_ids) :
              i < j =>
                 /\ qa.chunk_ids[i] # qa.chunk_ids[j]
                 /\ ~FracLess(qa.chunk_scores[qa.chunk_ids[i]], qa.chunk_scores[qa.chunk_ids[j]])
                 /\ qa.chunk_scores[qa.chunk_ids[i]] = qa.chunk_scores[qa.chunk_ids[j]]
                       => C21_FirstBefore(qa.first[qa.chunk_ids[i]], qa.first[qa.chunk_ids[j]])

\* Two chunks have equal fused scores; the one with the greater id was first
\* encountered in the first query, the other in the second, and it is ranked first.
C21_Witness ==
    /\ qa.done
    /\ Len(qa.chunk_ids) = 2
    /\ qa.chunk_scores[1] = qa.chunk_scores[2]
    /\ qa.chunk_ids = <<2, 1>>
    /\ qa.first[2][1] = 1 /\ qa.first[1][1] = 2

(***************************************************************************)
(* The question answering graph (graph.build_qa_graph): optimize_query,    *)
(* then qa.  The database is what ingestion runs with the stub Oracle      *)
(* left.                                                                   *)
(***************************************************************************)

\* str.lower() on the ASCII letters.
UpperLetters == "ABCDEFGHIJKLMNOPQRSTUVWXYZ"
LowerLetters == "abcdefghijklmnopqrstuvwxyz"
LowerChar(c) ==
    IF \E i \in 1..Len(UpperLetters) : SubSeq(UpperLetters, i, i) = c
    THEN LET i == CHOOSE k \in 1..Len(UpperLetters) : SubSeq(UpperLetters, k, k) = c
         IN  SubSeq(LowerLetters, i, i)
    ELSE c

RECURSIVE LowerFrom(_, _)
LowerFrom(s, i) == IF i > Len(s) THEN "" ELSE LowerChar(SubSeq(s, i, i)) \o LowerFrom(s, i + 1)
Lower(s) == LowerFrom(s, 1)

\* Python's "needle in text" on strings.
Contains(text, needle) ==
    \E i \in 1..(Len(text) - Len(needle) + 1) : SubSeq(text, i, i + Len(needle) - 1) = needle

\* One ingestion run of a source on the database db with the stub Oracle, node by
\* node; indexed is FALSE when the embedding client raised in indexer.
EmptyDb ==
    [episodes |-> {}, segments |-> {}, topics |-> {}, chunks |-> {}, chunk_segments |-> {},
     entities |-> {}, assertions |-> {}, cards |-> {}, embeddings |-> {}, ingested |-> {}]

StubTopics(segs) == CHOOSE r \in TopicResults(segs) : Len(r) = 1
StubEntities(segs) == CHOOSE r \in EntityResults(segs) : TRUE
StubAssertions(segs, episode_id) == CHOOSE r \in AssertionResults(segs, episode_id) : TRUE
StubCards(ents, episode_id) ==
    CHOOSE r \in CardResults(ents, episode_id) :
        /\ ~r.needs_refine
        /\ Len(r.cards) = Len(ents)
        /\ \A i \in 1..Len(r.cards) : r.cards[i].short_definition # ""

IngestRun(db, source, indexed) ==
    LET result == ParseSource(source)
        e == upsert_episode(db.episodes, result.episode)
        g == upsert_segments(db.segments, e.row.id, result.segments)
        t == upsert_topics(db.topics, e.row.id, StubTopics(g.stored))
        built == build_chunks_from_topics(t.stored, g.stored, DefaultParams).chunks
        c == upsert_chunks(db.chunks, db.chunk_segments, e.row.id, built)
        n == upsert_entities(db.entities, e.row.id, StubEntities(g.stored))
        a == upsert_assertions(db.assertions,
                               PostProcess(StubAssertions(g.stored, e.row.id), g.stored, e.row.id))
        k == upsert_cards(db.cards, StubCards(n.stored, e.row.id).cards)
        chs == IF c.stored # <<>> THEN c.stored
               ELSE RowsById({x \in c.table : x.episode_id = e.row.id})
        m == embed_chunks(db.embeddings, chs)
    IN  [episodes |-> e.table, segments |-> g.table, topics |-> t.table, chunks |-> c.table,
         chunk_segments |-> c.chunk_segments, entities |-> n.table, assertions |-> a.table,
         cards |-> k.table,
         embeddings |-> IF indexed THEN m.table ELSE db.embeddings,
         ingested |-> db.ingested \cup {[source |-> source, episode_id |-> e.row.id,
                                         segments |-> g.stored]}]

\* The ingestion histories the questions are asked after: one transcript page; the
\* same page with the embedding client down; a local file ingested twice; two pages
\* that open with the same line.
Histories ==
    { [sources |-> <<"u1">>, indexed |-> TRUE],
      [sources |-> <<"u1">>, indexed |-> FALSE],
      [sources |-> <<"f1", "f1">>, indexed |-> TRUE],
      [sources |-> <<"u1", "u2">>, indexed |-> TRUE] }

RECURSIVE IngestAll(_, _, _)
IngestAll(db, h, i) ==
    IF i > Len(h.sources) THEN db
    ELSE IngestAll(IngestRun(db, h.sources[i], h.indexed), h, i + 1)

\* The questions: the text of one line, of several lines in other letter case, of
\* the opening line, of the local file, and one that no line contains.  (A text is
\* abbreviated to its name, and so is what is looked for in it.)
Questions == {"u1-7", "U1-1", "intro", "f1", "why"}

\* RetrievalPlan.top_k_chunks: the default and a plan of the Oracle's.
DefaultTopK == 8
TopKs == {1, DefaultTopK}
\* The most queries in an Oracle result.
MaxAskQueries == 2
\* What the query optimizer's Oracle call may return: queries stands for the number
\* of reformulations (the structured-output strategy returns them unpadded).
OptimizerResults == {[queries |-> n, top_k |-> k] : n \in 0..MaxAskQueries, k \in TopKs}

\* The rows of a SELECT without ORDER BY: a sequential scan returns the rows of these
\* insert-only tables in the order of their ids, from the row it starts at and
\* wrapping around (a synchronized scan starts in the middle of the table).
ScanStarts == {0, 3}
ScanRows(rows, start) ==
    LET s == RowsById(rows)
        n == Len(s)
        k == IF n = 0 THEN 0 ELSE start % n
    IN  SubSeq(s, k + 1, n) \o SubSeq(s, 1, k)

\* fetch_episode_segments: no ORDER BY.
fetch_episode_segments(episode_id, start) ==
    ScanRows({s \in segments : s.episode_id = episode_id}, start)

\* fetch_segment_ids_for_chunk: ORDER BY ord.
RECURSIVE RowsByOrd(_)
RowsByOrd(rows) ==
    IF rows = {} THEN <<>>
    ELSE LET first == CHOOSE r \in rows : \A x \in rows : r.ord <= x.ord
         IN  <<first.segment_id>> \o RowsByOrd(rows \ {first})

fetch_segment_ids_for_chunk(chunk_id) == RowsByOrd({r \in chunk_segments : r.chunk_id = chunk_id})

\* fetch_segments_by_ids: WHERE id IN (...), no ORDER BY.
fetch_segments_by_ids(segment_ids, start) ==
    IF segment_ids = <<>> THEN <<>>
    ELSE ScanRows({s \in segments : \E i \in 1..Len(segment_ids) : s.id = segment_ids[i]}, start)

\* The cosine distance of a chunk's embedding from a query vector.  A query vector
\* is given by the chunk it is nearest to; no two chunks are equally far from it.
QueryVectors == {1, 4}
Distance(near, chunk_id) ==
    LET d == IF chunk_id >= near THEN chunk_id - near ELSE near - chunk_id
    IN  <<2 * d + (IF chunk_id < near THEN 1 ELSE 0), 20>>

\* similarity_search_chunks: the episode's chunks with an embedding under the model
\* name and dimensionality, ORDER BY distance LIMIT top_k.
RECURSIVE RowsByDistance(_, _)
RowsByDistance(ids, near) ==
    IF ids = {} THEN <<>>
    ELSE LET first == CHOOSE c \in ids :
                          \A x \in ids : ~FracLess(Distance(near, x), Distance(near, c))
         IN  << <<first, Distance(near, first)>> >> \o RowsByDistance(ids \ {first}, near)

similarity_search_chunks(near, top_k, episode_id, model_name, dims) ==
    LET found == {c.id : c \in {x \in chunks :
                      /\ x.episode_id = episode_id
                      /\ \E e \in embeddings : /\ e.object_type = "chunk"
                                               /\ e.object_id = x.id
                                               /\ e.model_name = model_name
                                               /\ e.dims = dims}}
        rows == RowsByDistance(found, near)
    IN  SubSeq(rows, 1, Min(top_k, Len(rows)))

\* llm._stub: the tasks it has a result for; for any other it raises ValueError.
StubTasks == {"topics", "entities", "assertions", "cards"}
stub_raises(task) == task \notin StubTasks

\* The "for q in queries" loop of qa_chain from query i on: results[i] is what
\* similarity_search_chunks returned for it.
RECURSIVE QueriesLoop(_, _, _)
QueriesLoop(fused, results, i) ==
    IF i > Len(results) THEN fused
    ELSE QueriesLoop([chunk_scores |-> FuseResults(fused.chunk_scores, results[i], 1),
                      chunk_keys |-> FuseKeys(fused.chunk_keys, results[i], 1)],
                     results, i + 1)

\* chunk_segment_ids.extend(fetch_segment_ids_for_chunk(chunk_id)) over the ranked chunks.
RECURSIVE ExpandChunks(_, _)
ExpandChunks(chunk_ids, i) ==
    IF i > Len(chunk_ids) THEN <<>>
    ELSE fetch_segment_ids_for_chunk(chunk_ids[i]) \o ExpandChunks(chunk_ids, i + 1)

\* list(dict.fromkeys(ids)): the first occurrence of each is kept.
RECURSIVE FromKeys(_, _)
FromKeys(ids, i) ==
    IF i > Len(ids) THEN <<>>
    ELSE IF \E j \in 1..(i - 1) : ids[j] = ids[i] THEN FromKeys(ids, i + 1)
         ELSE <<ids[i]>> \o FromKeys(ids, i + 1)

\* The limits of qa_chain: citations, fallback segments, characters of a quote.
CitationLimit == 8
FallbackSegments == 3
CitationQuoteLimit == 360

Citation(seg) ==
    [segment_id |-> seg.id, speaker |-> seg.speaker, timestamp |-> seg.t_start_sec,
     quote |-> take_quote(seg.text, CitationQuoteLimit)]

\* The initial state of a question answering session: the tables after a history.
InitQa ==
    /\ \E h \in Histories :
          LET db == IngestAll(EmptyDb, h, 1)
          IN  /\ episodes = db.episodes /\ segments = db.segments /\ topics = db.topics
              /\ chunks = db.chunks /\ chunk_segments = db.chunk_segments
              /\ entities = db.entities /\ assertions = db.assertions /\ cards = db.cards
              /\ embeddings = db.embeddings
              /\ ingested = db.ingested
    /\ pc = "idle"
    /\ state = InitialState(NoneStr)
    /\ run = NoRun
    /\ windowed = {}
    /\ win_in = [segments |-> <<>>, topics |-> <<>>, params |-> DefaultParams]
    /\ win_out = WinNotRun
    /\ qa = QaNotRun
    /\ ask = AskNotRun
    /\ call = CallNotRun
    /\ race = RaceNotRun
    /\ txn = TxnNotRun

askrest == <<tables, pc, state, run, ingested, windowed, winvars, qa, call, race, txn>>

\* cli.ask_command: graph.invoke on a state with the episode and the question.
\* stub_llm is the setting TECH_RADAR_STUB_LLM.
ask_command ==
    /\ ask.pc = "idle"
    /\ \E episode_id \in {r.episode_id : r \in ingested}, question \in Questions,
          stub_llm \in BOOLEAN :
          ask' = [AskNotRun EXCEPT !.pc = "optimize_query", !.episode_id = episode_id,
                                   !.question = question, !.stub_llm = stub_llm]
    /\ UNCHANGED askrest

\* optimize_query_node: call_json("query_optimizer", ...), not caught.  In stub mode
\* the call is llm._stub's; otherwise the Oracle returns a result, or call_json
\* raises (no API key, no valid output).
optimize_query_node ==
    /\ ask.pc = "optimize_query"
    /\ \/ /\ ask.stub_llm
          /\ ask' = IF stub_raises("query_optimizer") THEN [ask EXCEPT !.pc = "RAISED"]
                    ELSE [ask EXCEPT !.pc = "qa"]
       \/ /\ ~ask.stub_llm
          /\ \/ ask' = [ask EXCEPT !.pc = "RAISED"]
             \/ \E result \in OptimizerResults :
                   ask' = [ask EXCEPT !.pc = "qa", !.optimized = result]
    /\ UNCHANGED askrest

\* qa_chain.  start is where the scans of the segments table start, raises whether
\* embed_query or the search raised, nears the query vectors.  tier is the tier the
\* hits came from: 1 fusion, 2 substring match, 3 first segments.
qa_chain ==
    /\ ask.pc = "qa"
    /\ \E start \in ScanStarts, raises \in BOOLEAN :
          LET segs == fetch_episode_segments(ask.episode_id, start)
              optimized == ask.optimized.queries > 0
              queries == IF optimized THEN ask.optimized.queries ELSE 1
              top_k == IF optimized THEN ask.optimized.top_k ELSE DefaultTopK
          IN  \E nears \in [1..queries -> QueryVectors] :
                 LET results == [i \in 1..queries |->
                                    similarity_search_chunks(nears[i], top_k, ask.episode_id,
                                                             EmbeddingModel, EmbeddingDims)]
                     fused == QueriesLoop([chunk_scores |-> <<>>, chunk_keys |-> <<>>],
                                          results, 1)
                     chunk_ids == SortedByScore(fused.chunk_keys, fused.chunk_scores)
                     chunk_segment_ids == FromKeys(ExpandChunks(chunk_ids, 1), 1)
                     found == IF raises THEN <<>>
                              ELSE fetch_segments_by_ids(chunk_segment_ids, start)
                     matches == SelectSeq(segs, LAMBDA seg :
                                    Contains(Lower(seg.text), Lower(ask.question)))
                     hits == IF found # <<>> THEN found
                             ELSE IF matches # <<>> THEN matches
                             ELSE SubSeq(segs, 1, Min(FallbackSegments, Len(segs)))
                     cited == SubSeq(hits, 1, Min(CitationLimit, Len(hits)))
                 IN  ask' = [ask EXCEPT
                                !.pc = "END",
                                !.raised = raises,
                                !.chunk_ids = IF raises THEN <<>> ELSE chunk_ids,
                                !.chunk_segment_ids = IF raises THEN <<>> ELSE chunk_segment_ids,
                                !.tier = IF found # <<>> THEN 1 ELSE IF matches # <<>> THEN 2 ELSE 3,
                                !.hits = [i \in 1..Len(hits) |-> hits[i].id],
                                !.citations = [i \in 1..Len(cited) |-> Citation(cited[i])]]
    /\ UNCHANGED askrest

NextQa == ask_command \/ optimize_query_node \/ qa_chain

SpecQa == InitQa /\ [][NextQa]_vars

(***************************************************************************)
(* Properties of the question answering graph (checked under SpecQa).      *)
(***************************************************************************)

\* The rank of the first ranked chunk that has segment sid as a member, and the
\* segment's place in that chunk.
C22_Place(sid) ==
    LET rank == CHOOSE i \in 1..Len(ask.chunk_ids) :
                    /\ \E r \in chunk_segments :
                          r.chunk_id = ask.chunk_ids[i] /\ r.segment_id = sid
                    /\ \A j \in 1..(i - 1) :
                          ~\E r \in chunk_segments :
                              r.chunk_id = ask.chunk_ids[j] /\ r.segment_id = sid
        row == CHOOSE r \in chunk_segments :
                   r.chunk_id = ask.chunk_ids[rank] /\ r.segment_id = sid
    IN  <<rank, row.ord>>

\* C22: when the fusion yields segments, the segment sequence is the members of the
\* ranked chunks, chunk after chunk in the order of the chunk's definition, each
\* segment once at its earliest rank, and the citations of the answer are the first
\* 8 segments of that sequence, in that order.
C22_CitationsInRankOrder ==
    (ask.pc = "END" /\ ask.tier = 1) =>
        LET ids == ask.chunk_segment_ids
        IN  /\ SeqToSet(ids) = {r.segment_id : r \in {x \in chunk_segments :
                                    \E i \in 1..Len(ask.chunk_ids) : x.chunk_id = ask.chunk_ids[i]}}
            /\ \A i, j \in 1..Len(ids) :
                  i < j => C21_FirstBefore(C22_Place(ids[i]), C22_Place(ids[j]))
            /\ [i \in 1..Len(ask.citations) |-> ask.citations[i].segment_id]
                 = SubSeq(ids, 1, Min(CitationLimit, Len(ids)))

\* The segments of an episode: the rows parse_and_segment returned for its transcript.
C23_EpisodeSegments(episode_id) ==
    UNION {SeqToSet(r.segments) : r \in {x \in ingested : x.episode_id = episode_id}}

\* The ids of a set of rows, ascending.
C23_IdsAscending(rows) == LET s == RowsById(rows) IN [i \in 1..Len(s) |-> s[i].id]

\* C23: when the retrieval raised or the fusion yielded no segment, the hits are
\* exactly the episode's segments whose text contains the question, letter case
\* aside; only when there is none are they the first 3 segments of the episode in
\* the order of their ids.
C23_FallbackTiers ==
    (ask.pc = "END" /\ ask.tier # 1) =>
        LET own == C23_EpisodeSegments(ask.episode_id)
            matching == {s \in own : Contains(Lower(s.text), Lower(ask.question))}
            ordered == C23_IdsAscending(own)
        IN  IF matching # {}
            THEN ask.tier = 2 /\ SeqToSet(ask.hits) = {s.id : s \in matching}
            ELSE /\ ask.tier = 3
                 /\ ask.hits = SubSeq(ordered, 1, Min(FallbackSegments, Len(ordered)))

\* C24: the question answering graph never aborts: no node raises to the caller, and
\* when the query optimization runs in stub mode the graph goes on to qa with no
\* optimizer result (the raw question is the only query).
C24_QaNeverAborts ==
    /\ ask.pc # "RAISED"
    /\ (ask.stub_llm /\ ask.pc \in {"qa", "END"}) => ask.optimized = NoOptimized

\* C25: every answer has at least one citation and at most 8, whichever ingested
\* episode the question is about.
C25_CitationCount ==
    ask.pc = "END" => (Len(ask.citations) >= 1 /\ Len(ask.citations) <= CitationLimit)

(***************************************************************************)
(* llm.call_json on its own: one action per pass of its attempt loop.      *)
(***************************************************************************)

\* The tasks call_json is called for.
Tasks == {"topics", "entities", "assertions", "cards", "query_optimizer"}

\* for _attempt in range(3)
MaxAttempts == 3

\* What the structured-output strategy does: it returns a validated result, or
\* raises.  What the raw-text strategy does after it: the chat model raises; the
\* reply is not JSON; the reply is JSON that does not validate against the schema,
\* also after _normalize_payload; the reply validates; the reply validates once
\* _strip_code_fences has taken the code fence around it away.
StructuredOutcomes == {"valid", "raises"}
RawOutcomes == {"raises", "not_json", "invalid", "valid", "fenced"}

callrest == <<tables, pc, state, run, ingested, windowed, winvars, qa, ask, race, txn>>

\* call_json up to the attempt loop: the stub in stub mode, else get_chat_model,
\* which raises without an API key.
call_json_enter ==
    /\ call.pc = "idle"
    /\ \E task \in Tasks, stub_llm \in BOOLEAN, api_key \in BOOLEAN :
          call' = [CallNotRun EXCEPT
                      !.task = task,
                      !.stub_llm = stub_llm,
                      !.pc = IF stub_llm
                             THEN IF stub_raises(task) THEN "raised" ELSE "returned"
                             ELSE IF ~api_key THEN "raised" ELSE "attempt"]
    /\ UNCHANGED callrest

\* How one pass of the loop ends: "returned", "raised", or "continue".
\* json.loads failing is the only way to the next pass; an error of the raw
\* model.invoke or of schema.model_validate is not caught.
PassEnds(structured, raw) ==
    IF structured = "valid" THEN "returned"
    ELSE CASE raw = "raises" -> "raised"
           [] raw = "not_json" -> "continue"
           [] raw = "invalid" -> "raised"
           [] raw = "valid" -> "returned"
           [] raw = "fenced" -> "returned"

\* One pass of "for _attempt in range(3)"; after the last pass without a return,
\* raise ValueError.
call_json_attempt ==
    /\ call.pc = "attempt"
    /\ \E structured \in StructuredOutcomes, raw \in RawOutcomes :
          LET ends == PassEnds(structured, raw)
              n == call.attempt + 1
          IN  call' = [call EXCEPT
                          !.attempt = n,
                          !.tries = Append(@, <<structured,
                                               IF structured = "valid" THEN NoneStr ELSE raw>>),
                          !.pc = IF ends = "continue"
                                 THEN IF n < MaxAttempts THEN "attempt" ELSE "raised"
                                 ELSE ends]
    /\ UNCHANGED callrest

NextCall == call_json_enter \/ call_json_attempt

SpecCall == Init /\ [][NextCall]_vars

\* C27: call_json makes at most 3 attempts, returns at the first attempt that
\* obtains a schema-valid result from either strategy, and when it raises after
\* entering the attempt loop, 3 attempts have been made and none of them obtained a
\* schema-valid result.
C27_RaisesAfterThreeAttempts ==
    LET valid(try) == try[1] = "valid" \/ try[2] \in {"valid", "fenced"}
        n == Len(call.tries)
    IN  /\ n <= 3
        /\ \A i \in 1..(n - 1) : ~valid(call.tries[i])
        /\ call.pc = "returned" /\ n > 0 => valid(call.tries[n])
        /\ call.pc = "attempt" /\ n > 0 => ~valid(call.tries[n])
        /\ call.pc = "raised" /\ n > 0 => (n = 3 /\ ~valid(call.tries[n]))

(***************************************************************************)
(* llm.py: _normalize_payload on the parsed JSON of a raw reply.  A JSON   *)
(* value is kept as its kind and, for a string or a list of strings, its   *)
(* content.                                                                *)
(***************************************************************************)
JsonMissing == [kind |-> "missing", value |-> <<>>]
JsonStr(s) == [kind |-> "str", value |-> <<s>>]
JsonList(l) == [kind |-> "list", value |-> l]
JsonDict == [kind |-> "dict", value |-> <<>>]
\* {"value": s}
JsonValueDict(s) == [kind |-> "dict", value |-> <<s>>]

\* str.strip() of the blanks.
RECURSIVE Strip(_)
Strip(s) ==
    IF Len(s) > 0 /\ SubSeq(s, 1, 1) = " " THEN Strip(SubSeq(s, 2, Len(s)))
    ELSE IF Len(s) > 0 /\ SubSeq(s, Len(s), Len(s)) = " " THEN Strip(SubSeq(s, 1, Len(s) - 1))
    ELSE s

\* list(dict.fromkeys(l)): the first occurrence of every element, in order.
RECURSIVE Dedup(_)
Dedup(l) ==
    IF l = <<>> THEN <<>>
    ELSE LET front == Dedup(SubSeq(l, 1, Len(l) - 1))
             last == l[Len(l)]
         IN  IF \E i \in 1..Len(front) : front[i] = last THEN front ELSE Append(front, last)

\* while len(queries) < 3: queries.append(question or "AI podcast transcript")
RECURSIVE PadQueries(_, _)
PadQueries(queries, question) ==
    IF Len(queries) < 3
    THEN PadQueries(Append(queries, IF question # "" THEN question ELSE "AI podcast transcript"),
                    question)
    ELSE queries

QueryLimit == 6

\* The queries built when the reply's are unusable: the question, one query per
\* entity, padded to three, then deduplicated and cut to six.
FallbackQueries(question, ents) ==
    LET first == IF question # "" THEN <<question>> ELSE <<>>
        per_entity == [i \in 1..Len(ents) |-> Strip(ents[i] \o " " \o question)]
        unique == Dedup(PadQueries(first \o per_entity, question))
    IN  SubSeq(unique, 1, Min(QueryLimit, Len(unique)))

\* The retrieval_plan put in when the reply has none.
DefaultPlan == JsonValueDict("top_k_chunks 8")

_normalize_payload(task, data, context) ==
    IF task # "query_optimizer"
    THEN IF data.kind = "list" THEN [data EXCEPT !.kind = "dict", !.key = task] ELSE data
    ELSE IF data.kind # "dict" THEN data
    ELSE LET hinted == IF data.time_hint.kind = "str"
                       THEN JsonValueDict(data.time_hint.value[1])
                       ELSE IF data.time_hint.kind = "missing" THEN JsonValueDict("none")
                       ELSE data.time_hint
             ents == IF data.entities.kind = "list" THEN data.entities.value ELSE <<>>
             unusable == \/ data.queries.kind # "list"
                         \/ Len(data.queries.value) < 3
         IN  [data EXCEPT
                 !.time_hint = hinted,
                 !.queries = IF unusable THEN JsonList(FallbackQueries(context.question, ents))
                             ELSE @,
                 !.retrieval_plan = IF @.kind = "missing" THEN DefaultPlan ELSE @]

\* The replies and questions _normalize_payload is applied to.
NormQuestions == {"", "why"}
NormPayloads ==
    {[kind |-> k, key |-> NoneStr, time_hint |-> th, queries |-> qs, entities |-> es,
      retrieval_plan |-> rp] :
        k \in {"dict", "list"},
        th \in {JsonMissing, JsonStr("recent"), JsonValueDict("episode_specific")},
        qs \in {JsonMissing, JsonStr("x"), JsonList(<<>>), JsonList(<<"x", "y">>),
                JsonList(<<"x", "y", "z">>),
                JsonList(<<"q1", "q2", "q3", "q4", "q5", "q6", "q7">>)},
        es \in {JsonMissing, JsonStr("a"), JsonList(<<>>), JsonList(<<"a">>), JsonList(<<"a", "b">>),
                JsonList(<<"a", "a">>), JsonList(<<"a", "b", "c", "d", "e", "f">>)},
        rp \in {JsonMissing, JsonDict}}

\* call_json has parsed a raw reply as JSON and normalizes it.
normalize_reply ==
    /\ call.pc = "idle"
    /\ \E task \in {"query_optimizer", "cards"} : \E data \in NormPayloads :
       \E question \in NormQuestions :
          call' = [pc |-> "normalized", task |-> task, question |-> question, reply |-> data,
                   data |-> _normalize_payload(task, data, [question |-> question])]
    /\ UNCHANGED callrest

NextNormalize == normalize_reply

SpecNormalize == Init /\ [][NextNormalize]_vars

\* The reply is a JSON object whose queries field is missing, not a list, or a
\* list of fewer than three.
C36_QueriesUnusable ==
    /\ call.pc = "normalized"
    /\ call.task = "query_optimizer"
    /\ call.reply.kind = "dict"
    /\ \/ call.reply.queries.kind # "list"
       \/ Len(call.reply.queries.value) < 3

\* C36: after _normalize_payload for the query_optimizer task, whenever the reply
\* had a missing, non-list or shorter-than-3 queries field, the payload's queries
\* are a list of at least 3 and at most 6 entries.
C36_AtLeastThreeQueries ==
    C36_QueriesUnusable =>
        /\ call.data.queries.kind = "list"
        /\ Len(call.data.queries.value) >= 3
        /\ Len(call.data.queries.value) <= QueryLimit

(***************************************************************************)
(* One upsert call statement by statement (storage.upsert_chunks and       *)
(* storage.upsert_entities inside "with get_session() as session"): the    *)
(* session holds the rows added and modified so far; any statement of the  *)
(* block may raise (a constraint violation at flush, a lost connection).   *)
(***************************************************************************)
MaxTxnCalls == 2

TxnEpisodes == 1..2
TxnSegments == [i \in 1..3 |-> WinSegment(i, "s")]
TxnChunk(a, b) ==
    LET window == SubSeq(TxnSegments, a, b)
    IN  _make_chunk(NoTopic, window, _build_chunk_text(NoTopic, window))

\* The batches an upsert is called with.
TxnBatches(op) ==
    IF op = "chunks"
    THEN { << TxnChunk(1, 2), TxnChunk(2, 3) >>, << TxnChunk(2, 3), TxnChunk(1, 3) >> }
    ELSE EntityResults(TxnSegments)

\* The rows of the store.
Store == [chunks |-> chunks, chunk_segments |-> chunk_segments, entities |-> entities]

\* session.commit() makes the session's rows the store's; session.rollback()
\* discards them.
SessionCommit(store, work) == work
RollbackKeepsFlushed(store, work) == work
SessionRollback(store, work) == store

InitTxn ==
    /\ txn = TxnNotRun
    /\ episodes = {} /\ segments = {} /\ topics = {} /\ chunks = {} /\ chunk_segments = {}
    /\ entities = {} /\ assertions = {} /\ cards = {} /\ embeddings = {}
    /\ pc = "idle"
    /\ state = InitialState(NoneStr)
    /\ run = NoRun
    /\ ingested = {}
    /\ windowed = {}
    /\ win_in = [segments |-> <<>>, topics |-> <<>>, params |-> DefaultParams]
    /\ win_out = WinNotRun
    /\ qa = QaNotRun
    /\ ask = AskNotRun
    /\ call = CallNotRun
    /\ race = RaceNotRun

txnrest == <<episodes, segments, topics, assertions, cards, embeddings, pc, state, run, ingested,
             windowed, winvars, qa, ask, call, race>>

\* The call: get_session opens a session on the store as it is.
session_open ==
    /\ txn.pc = "idle"
    /\ txn.calls < MaxTxnCalls
    /\ \E op \in {"chunks", "entities"} : \E batch \in TxnBatches(op) : \E episode_id \in TxnEpisodes :
          txn' = [pc |-> "open", calls |-> txn.calls + 1, op |-> op, episode_id |-> episode_id,
                  batch |-> batch, i |-> 1, work |-> Store, before |-> Store]
    /\ UNCHANGED <<chunks, chunk_segments, entities, txnrest>>

\* One pass of the for loop: the element is looked up in the session and added or
\* modified there.
session_statement ==
    /\ txn.pc = "open"
    /\ txn.i <= Len(txn.batch)
    /\ LET w == txn.work
           one == << txn.batch[txn.i] >>
           after ==
               IF txn.op = "chunks"
               THEN LET r == ChunksLoop(w.chunks, w.chunk_segments, txn.episode_id, one, 1, <<>>)
                    IN  [w EXCEPT !.chunks = r.table, !.chunk_segments = r.chunk_segments]
               ELSE LET r == EntitiesLoop(w.entities, txn.episode_id, one, 1, <<>>)
                    IN  [w EXCEPT !.entities = r.table]
       IN  txn' = [txn EXCEPT !.work = after, !.i = txn.i + 1]
    /\ UNCHANGED <<chunks, chunk_segments, entities, txnrest>>

\* The block ended: session.commit().
session_commit ==
    /\ txn.pc = "open"
    /\ txn.i > Len(txn.batch)
    /\ LET s == SessionCommit(Store, txn.work)
       IN  /\ chunks' = s.chunks
           /\ chunk_segments' = s.chunk_segments
           /\ entities' = s.entities
    /\ txn' = [txn EXCEPT !.pc = "committed"]
    /\ UNCHANGED txnrest

\* A statement of the block, or the commit, raised: session.rollback(), and the
\* exception goes to the caller.
session_rollback ==
    /\ txn.pc = "open"
    /\ LET s == SessionRollback(Store, txn.work)
       IN  /\ chunks' = s.chunks
           /\ chunk_segments' = s.chunk_segments
           /\ entities' = s.entities
    /\ txn' = [txn EXCEPT !.pc = "rolled_back"]
    /\ UNCHANGED txnrest

\* The upsert has returned or raised.
session_close ==
    /\ txn.pc \in {"committed", "rolled_back"}
    /\ txn' = [TxnNotRun EXCEPT !.calls = txn.calls]
    /\ UNCHANGED <<chunks, chunk_segments, entities, txnrest>>

NextTxn == session_open \/ session_statement \/ session_commit \/ session_rollback \/ session_close

SpecTxn == InitTxn /\ [][NextTxn]_vars

\* C39: an upsert is atomic with respect to failure: while its session is open the
\* store is as it was at the call; when the upsert raises, partway through its
\* batch or at the commit, the store is as before the call, with none of the rows
\* the call added or modified; rows change only at the commit after the whole batch,
\* and then the store holds the result of the whole batch.
C39_UpsertAtomic ==
    [][ /\ txn'.pc = "open" => Store' = txn'.before
        /\ (txn.pc = "open" /\ txn'.pc = "rolled_back") => Store' = txn.before
        /\ (txn.pc = "open" /\ txn'.pc = "committed") =>
              /\ txn.i = Len(txn.batch) + 1
              /\ IF txn.op = "chunks"
                 THEN LET r == upsert_chunks(txn.before.chunks, txn.before.chunk_segments,
                                             txn.episode_id, txn.batch)
                      IN  Store' = [txn.before EXCEPT !.chunks = r.table,
                                                      !.chunk_segments = r.chunk_segments]
                 ELSE Store' = [txn.before EXCEPT
                                   !.entities = upsert_entities(@, txn.episode_id, txn.batch).table]
        /\ txn'.pc \notin {"committed", "rolled_back"} => Store' = Store ]_vars

\* An upsert on a store that holds rows raised after its session had added or
\* modified rows for the first elements of the batch, and the store holds none of
\* them.
C39_Witness ==
    /\ txn.pc = "rolled_back"
    /\ txn.calls = 2
    /\ txn.i >= 2
    /\ txn.before # NoRows
    /\ txn.work # txn.before
    /\ Store = txn.before

(***************************************************************************)
(* Two ingestion runs of the same source upserting the same identity key   *)
(* at the same time.  Every upsert of storage.py is, inside one session of *)
(* db.get_session: a SELECT by the key, then session.add and flush when    *)
(* nothing was found, then the commit at the end of the session.  A        *)
(* session sees the rows that are committed.                               *)
(***************************************************************************)

\* The tables, and whether models.py declares the identity key unique: unique=True
\* on episodes.source_url, segments.hash, chunks.chunk_hash,
\* entities.canonical_name and assertions.hash, primary_key=True on
\* tech_cards.entity_id, nothing on the key of embeddings.
RaceTables ==
    {"episodes", "segments", "chunks", "entities", "assertions", "tech_cards", "embeddings"}
KeyIsUnique(table) == table # "embeddings"

racerest == <<tables, pc, state, run, ingested, windowed, winvars, qa, ask, call, txn>>

\* Both runs reach the same upsert; the row may be there already, from an earlier
\* run.
race_begin ==
    /\ race.pc = "idle"
    /\ \E table \in RaceTables, present \in BOOLEAN :
          race' = [RaceNotRun EXCEPT
                      !.pc = "running",
                      !.table = table,
                      !.rows = IF present THEN {[id |-> 1, by |-> "earlier"]} ELSE {}]
    /\ UNCHANGED racerest

\* The SELECT by the identity key: an existing row is used and the upsert is done.
upsert_lookup(r) ==
    /\ race.pc = "running"
    /\ race.pos[r] = "start"
    /\ race' = [race EXCEPT !.pos[r] = IF race.rows # {} THEN "done" ELSE "looked"]
    /\ UNCHANGED racerest

\* session.add and flush, the INSERT.  Under a unique key it waits for a session
\* that has inserted the key and not committed, and fails with IntegrityError when
\* a row with the key is committed.
upsert_insert(r) ==
    /\ race.pc = "running"
    /\ race.pos[r] = "looked"
    /\ KeyIsUnique(race.table) => \A o \in RaceRuns \ {r} : ~race.pending[o]
    /\ race' = IF KeyIsUnique(race.table) /\ race.rows # {}
               THEN [race EXCEPT !.pos[r] = "conflict"]
               ELSE [race EXCEPT !.pos[r] = "inserted", !.pending[r] = TRUE]
    /\ UNCHANGED racerest

\* session.commit() at the end of get_session.
upsert_commit(r) ==
    /\ race.pc = "running"
    /\ race.pos[r] = "inserted"
    /\ race' = [race EXCEPT !.pos[r] = "done",
                            !.pending[r] = FALSE,
                            !.rows = @ \cup {[id |-> NextId(race.rows), by |-> r]}]
    /\ UNCHANGED racerest

NextRace ==
    \/ race_begin
    \/ \E r \in RaceRuns : upsert_lookup(r) \/ upsert_insert(r) \/ upsert_commit(r)

SpecRace == Init /\ [][NextRace]_vars

\* C29: when the upserts of two runs interleave, the table never holds more than
\* one row for the identity key, and no run fails with a persistence conflict.
C29_AtMostOnceNoConflict ==
    /\ Cardinality(race.rows) <= 1
    /\ \A r \in RaceRuns : race.pos[r] # "conflict"

(***************************************************************************)
(* The retrieval fusion over the database of an ingested transcript page:  *)
(* the ranked chunks are expanded to the segment sequence.                 *)
(***************************************************************************)
InitFuseDb ==
    /\ LET db == IngestAll(EmptyDb, [sources |-> <<"u1">>, indexed |-> TRUE], 1)
       IN  /\ episodes = db.episodes /\ segments = db.segments /\ topics = db.topics
           /\ chunks = db.chunks /\ chunk_segments = db.chunk_segments
           /\ entities = db.entities /\ assertions = db.assertions /\ cards = db.cards
           /\ embeddings = db.embeddings
           /\ ingested = db.ingested
    /\ pc = "idle"
    /\ state = InitialState(NoneStr)
    /\ run = NoRun
    /\ windowed = {}
    /\ win_in = [segments |-> <<>>, topics |-> <<>>, params |-> DefaultParams]
    /\ win_out = WinNotRun
    /\ qa = QaNotRun
    /\ ask = AskNotRun
    /\ call = CallNotRun
    /\ race = RaceNotRun
    /\ txn = TxnNotRun

\* What a search may return here: as QaResults, on two distances and for a
\* retrieval plan with top_k_chunks = 2 (LIMIT :top_k).
OrderDistances == {<<0, 1>>, <<1, 2>>}
OrderTopK == 2
OrderResults ==
    {r \in UNION {[1..k -> QaChunkIds \X OrderDistances] :
                     k \in 0..Min(OrderTopK, MaxQaChunks)} :
        /\ \A i, j \in 1..Len(r) : i # j => r[i][1] # r[j][1]
        /\ \A i, j \in 1..Len(r) : i < j => ~FracLess(r[j][2], r[i][2])}

\* The most queries of a question here.
MaxOrderQueries == 2

\* The whole "for q in queries" loop and the ranking after it; results keeps what
\* each query's search returned.
QaFusion ==
    /\ ~qa.done
    /\ \E n \in 1..MaxOrderQueries :
          \E results \in [1..n -> OrderResults] :
             LET fused == QueriesLoop([chunk_scores |-> <<>>, chunk_keys |-> <<>>], results, 1)
             IN  qa' = [queries |-> n, results |-> results,
                        chunk_scores |-> fused.chunk_scores, chunk_keys |-> fused.chunk_keys,
                        chunk_ids |-> SortedByScore(fused.chunk_keys, fused.chunk_scores),
                        done |-> TRUE]
    /\ UNCHANGED <<tables, pc, state, run, ingested, windowed, winvars, askvars>>

SpecFuseDb == InitFuseDb /\ [][QaFusion]_vars

\* The orders n queries may be processed in.
C30_Orders(n) == {p \in [1..n -> 1..n] : \A i, j \in 1..n : i # j => p[i] # p[j]}

\* The fusion of the searched queries' results processed in the order p: the fused
\* scores and the ranking.
C30_Fused(p) ==
    LET fused == QueriesLoop([chunk_scores |-> <<>>, chunk_keys |-> <<>>],
                             [i \in 1..Len(qa.results) |-> qa.results[p[i]]], 1)
    IN  [chunk_scores |-> fused.chunk_scores,
         chunk_ids |-> SortedByScore(fused.chunk_keys, fused.chunk_scores)]

\* The ranked, deduplicated segment sequence of a ranking.
C30_Output(chunk_ids) == FromKeys(ExpandChunks(chunk_ids, 1), 1)

\* No two fused chunks have equal scores.
C30_NoTie ==
    \A c, d \in DOMAIN qa.chunk_scores :
        c # d => (FracLess(qa.chunk_scores[c], qa.chunk_scores[d])
                  \/ FracLess(qa.chunk_scores[d], qa.chunk_scores[c]))

\* C30 as stated: in whatever order the queries' results are processed, the fused
\* scores and the ranked, deduplicated segment sequence are the same, also when two
\* chunks have equal fused scores.
C30_AnyOrderSameOutput ==
    qa.done =>
        \A p \in C30_Orders(qa.queries) :
            LET f == C30_Fused(p)
            IN  /\ f.chunk_scores = qa.chunk_scores
                /\ \/ f.chunk_ids = qa.chunk_ids
                   \/ C30_Output(f.chunk_ids) = C30_Output(qa.chunk_ids)

\* C30, amended: the fused scores are the same in whatever order the queries'
\* results are processed; the ranking, and with it the segment sequence, is the
\* same whenever no two chunks have equal fused scores (chunks of equal score are
\* ranked in the order they were first returned, which follows the order of the
\* queries).
C30_AnyOrderSameOutputWithoutTies ==
    qa.done =>
        \A p \in C30_Orders(qa.queries) :
            LET f == C30_Fused(p)
            IN  /\ f.chunk_scores = qa.chunk_scores
                /\ C30_NoTie =>
                      /\ f.chunk_ids = qa.chunk_ids
                      /\ C30_Output(f.chunk_ids) = C30_Output(qa.chunk_ids)

\* Two queries with different results, whose order matters to the dict's key order:
\* each returned first the chunk the other returned second, at different
\* distances, and the fused scores differ.
C30_Witness ==
    /\ qa.done
    /\ qa.queries = 2
    /\ Len(qa.results[1]) = 2 /\ Len(qa.results[2]) = 2
    /\ qa.results[1][1][1] = 1 /\ qa.results[2][1][1] = 2
    /\ qa.results[1] # qa.results[2]
    /\ C30_NoTie
    /\ qa.chunk_ids = <<2, 1>>

====
